---------------------------- MODULE Spec2Model ----------------------------
(***************************************************************************)
(* A model of the read-only Oracle SQL gateway: the query validator, the   *)
(* approval-token tracker, the rate limiter, the circuit breaker and the   *)
(* request pipeline (call_tool) that composes them.                        *)
(*                                                                         *)
(* A query string is a sequence of symbols.  A symbol is one whitespace    *)
(* character, one punctuation character, or one run of word characters    *)
(* (a keyword or a piece of an identifier): a maximal run of adjacent word *)
(* symbols is one word of the text, so the regular expression \bK\b        *)
(* matches exactly at a symbol K whose neighbours are not word symbols.    *)
(***************************************************************************)
EXTENDS Integers, Sequences, FiniteSets, TLC

VARIABLES
    now,                \* the clock that time.time() reads
    approvals,          \* QueryApprovalTracker.approvals: token -> record
    tracker_lock,       \* QueryApprovalTracker.lock: 0 (free) or the holder
    issued,             \* tokens drawn from secrets.token_hex so far
    requests,           \* RateLimiter.requests (deque of timestamps)
    cb,                 \* CircuitBreaker state, counters, last failure, lock
    pc,                 \* per task: position in the running coroutine
    op,                 \* per task: the operation being run
    arg,                \* per task: the call's arguments (query, token)
    loc,                \* per task: locals of the running coroutine
    result,             \* per task: what the operation returned
    hist,               \* history of the run (observations, no code state)
    input,              \* harness of the pure functions: the inputs drawn
    vout,               \* harness of the pure functions: stage and outputs
    pool                \* ConnectionPool: pool_lock and the connections

vars == <<now, approvals, tracker_lock, issued, requests, cb, pc, op, arg,
          loc, result, hist, input, vout, pool>>

-----------------------------------------------------------------------------
(* Bounds of the model *)

MaxTime == 2
MaxTokens == 2
MaxQLen == 3

(* Scaled-down constructor arguments *)
token_expiry == 1
\* the configuration of the module-level limiter and breaker, scaled down
max_requests == 1
time_window == 1
failure_threshold == 2
recovery_timeout == 1
success_threshold == 2

Tasks == {1, 2}
NoTask == 0
NoToken == 0          \* approval_token missing, None or ""
TokenIds == 1..MaxTokens

-----------------------------------------------------------------------------
(* Characters *)

Whitespace == {" ", "\n", "\t"}
Punct == {"-", "/", "*", ",", "(", ")", "'", "%", "=", ";", "<", ">", "."}
Digits == {"1", "5", "100", "10000", "99999"}

IsSpace(c) == c \in Whitespace
IsWord(c) == c \notin Whitespace /\ c \notin Punct

\* the symbols that have letters in two cases: <<upper, lower>>
CasePairs ==
    {<<"SELECT", "select">>, <<"FROM", "from">>, <<"WHERE", "where">>,
     <<"DELETE", "delete">>, <<"WITH", "with">>, <<"JOIN", "join">>,
     <<"ON", "on">>, <<"UNION", "union">>, <<"ALL", "all">>,
     <<"ROWNUM", "rownum">>, <<"ORDER", "order">>, <<"BY", "by">>,
     <<"T", "t">>, <<"U", "u">>, <<"A", "a">>, <<"X", "x">>}
LowerOf == [x \in {p[1] : p \in CasePairs} |->
              (CHOOSE p \in CasePairs : p[1] = x)[2]]

\* str.lower() and str.upper(), symbol by symbol
LowerSym(c) == IF c \in DOMAIN LowerOf THEN LowerOf[c] ELSE c
UpperSym(c) == IF \E x \in DOMAIN LowerOf : LowerOf[x] = c
               THEN CHOOSE x \in DOMAIN LowerOf : LowerOf[x] = c
               ELSE c
lower(s) == [i \in 1..Len(s) |-> LowerSym(s[i])]
upper(s) == [i \in 1..Len(s) |-> UpperSym(s[i])]

Min(a, b) == IF a < b THEN a ELSE b
Max(a, b) == IF a > b THEN a ELSE b

\* str.strip()
RECURSIVE lstrip(_)
lstrip(s) == IF s # <<>> /\ IsSpace(Head(s)) THEN lstrip(Tail(s)) ELSE s
RECURSIVE rstrip(_)
rstrip(s) == IF s # <<>> /\ IsSpace(s[Len(s)])
             THEN rstrip(SubSeq(s, 1, Len(s) - 1)) ELSE s
strip(s) == rstrip(lstrip(s))

\* str.split(): the maximal runs of non-whitespace characters
RECURSIVE splitFrom(_, _, _)
splitFrom(s, cur, out) ==
    IF s = <<>> THEN (IF cur = <<>> THEN out ELSE Append(out, cur))
    ELSE IF IsSpace(Head(s))
         THEN splitFrom(Tail(s), <<>>, IF cur = <<>> THEN out ELSE Append(out, cur))
         ELSE splitFrom(Tail(s), Append(cur, Head(s)), out)
split(s) == splitFrom(s, <<>>, <<>>)

\* ' '.join(words)
RECURSIVE join(_)
join(words) ==
    IF words = <<>> THEN <<>>
    ELSE IF Len(words) = 1 THEN words[1]
    ELSE words[1] \o <<" ">> \o join(Tail(words))

\* hashlib.sha256(...).hexdigest(): collision-free on the texts of the model
sha256(s) == [digest_of |-> s]


-----------------------------------------------------------------------------
(* Regular expressions over symbol sequences *)

\* \s* from i: the first index at or after i that holds no whitespace
RECURSIVE SkipSpaces(_, _)
SkipSpaces(s, i) ==
    IF i <= Len(s) /\ IsSpace(s[i]) THEN SkipSpaces(s, i + 1) ELSE i

\* \w* from i: the last index of the run of word symbols that starts at i
RECURSIVE WordEnd(_, _)
WordEnd(s, i) ==
    IF i < Len(s) /\ IsWord(s[i + 1]) THEN WordEnd(s, i + 1) ELSE i

\* \b before and after the symbol at i
BoundaryBefore(s, i) == i = 1 \/ ~IsWord(s[i - 1])
BoundaryAfter(s, i) == i = Len(s) \/ ~IsWord(s[i + 1])

\* \bK\b matches at i
WordAt(s, i, K) == s[i] = K /\ BoundaryBefore(s, i) /\ BoundaryAfter(s, i)
HasWord(s, K) == \E i \in 1..Len(s) : WordAt(s, i, K)
CountWord(s, K) == Cardinality({i \in 1..Len(s) : WordAt(s, i, K)})

\* \bA\s+B\b matches at i
TwoWordsAt(s, i, A, B) ==
    /\ s[i] = A /\ BoundaryBefore(s, i)
    /\ i < Len(s) /\ IsSpace(s[i + 1])
    /\ LET j == SkipSpaces(s, i + 1)
       IN  j <= Len(s) /\ s[j] = B /\ BoundaryAfter(s, j)

\* 'lit' in text, for a literal of word characters: the symbols of the model
\* are chosen so that a literal never lies across two symbols
Contains(s, lit) == \E i \in 1..Len(s) : s[i] = lit
\* 'A B' in text (one space)
ContainsPair(s, A, B) ==
    \E i \in 1..Len(s) : i + 2 <= Len(s) /\ s[i] = A /\ s[i + 1] = " " /\ s[i + 2] = B

Count(s, c) == Cardinality({i \in 1..Len(s) : s[i] = c})

-----------------------------------------------------------------------------
(* QueryValidator *)

MAX_COMPLEXITY_SCORE == 50
max_rows == "10000"
allow_cross_joins == FALSE

BLOCKED_KEYWORDS ==
    <<"DROP", "TRUNCATE", "DELETE", "INSERT", "UPDATE", "MERGE", "ALTER",
      "CREATE", "EXEC", "EXECUTE", "CALL", "GRANT", "REVOKE", "UNION ALL",
      "UNION">>
DANGEROUS_PATTERNS == <<"CROSS JOIN", "CARTESIAN">>

\* re.search(pattern, query_upper) for the patterns of the two lists
SearchPattern(u, p) ==
    CASE p = "UNION ALL"  -> \E i \in 1..Len(u) : TwoWordsAt(u, i, "UNION", "ALL")
      [] p = "CROSS JOIN" -> \E i \in 1..Len(u) : TwoWordsAt(u, i, "CROSS", "JOIN")
      [] OTHER            -> HasWord(u, p)

\* [^\n]* : the rest of the line
RECURSIVE DropLine(_)
DropLine(s) == IF s # <<>> /\ Head(s) # "\n" THEN DropLine(Tail(s)) ELSE s

\* re.sub(r'--[^\n]*', '', query)
RECURSIVE StripLineComments(_)
StripLineComments(s) ==
    IF Len(s) < 2 THEN s
    ELSE IF s[1] = "-" /\ s[2] = "-"
         THEN StripLineComments(DropLine(Tail(Tail(s))))
         ELSE <<s[1]>> \o StripLineComments(Tail(s))

\* the first "*/" at or after i, 0 when there is none
RECURSIVE FindClose(_, _)
FindClose(s, i) ==
    IF i + 1 > Len(s) THEN 0
    ELSE IF s[i] = "*" /\ s[i + 1] = "/" THEN i
    ELSE FindClose(s, i + 1)

\* re.sub(r'/\*.*?\*/', '', query, flags=re.DOTALL)
RECURSIVE StripBlockComments(_)
StripBlockComments(s) ==
    IF Len(s) < 2 THEN s
    ELSE IF s[1] = "/" /\ s[2] = "*" /\ FindClose(s, 3) > 0
         THEN StripBlockComments(SubSeq(s, FindClose(s, 3) + 2, Len(s)))
         ELSE <<s[1]>> \o StripBlockComments(Tail(s))

_strip_sql_comments_none(query) == query

\* _strip_sql_comments: line comments first, then block comments
_strip_sql_comments(query) == StripBlockComments(StripLineComments(query))

\* ^\s*(SELECT|WITH)\b
StartsWithSelectAnywhere(u) == Contains(u, "SELECT") \/ Contains(u, "WITH")
StartsWithSelect(u) ==
    LET j == SkipSpaces(u, 1)
    IN  j <= Len(u) /\ u[j] \in {"SELECT", "WITH"} /\ BoundaryAfter(u, j)

\* \bFROM\s+(.*?)(?:\bWHERE\b|\bGROUP\b|\bORDER\b|\bHAVING\b|$) with DOTALL:
\* the leftmost FROM that whitespace follows, and the text from the first
\* non-blank after it up to the first terminator word or the end
FromTerminators == {"WHERE", "GROUP", "ORDER", "HAVING"}
FromMatch(u) ==
    LET n == Len(u)
        starts == {i \in 1..n : /\ u[i] = "FROM" /\ BoundaryBefore(u, i)
                                /\ i < n /\ IsSpace(u[i + 1])}
    IN  IF starts = {} THEN [found |-> FALSE, clause |-> <<>>]
        ELSE LET i0 == CHOOSE i \in starts : \A j \in starts : i <= j
                 g == SkipSpaces(u, i0 + 1)
                 stops == {p \in g..(n + 1) :
                             \/ p = n + 1
                             \/ p = n /\ u[p] = "\n"
                             \/ p <= n /\ u[p] \in FromTerminators /\ WordAt(u, p, u[p])}
                 e == CHOOSE p \in stops : \A r \in stops : p <= r
             IN  [found |-> TRUE, clause |-> SubSeq(u, g, e - 1)]

\* the ")" that closes, on the same line, a "(" standing before i; 0 if none
RECURSIVE FindParen(_, _)
FindParen(s, i) ==
    IF i > Len(s) \/ s[i] = "\n" THEN 0
    ELSE IF s[i] = ")" THEN i
    ELSE FindParen(s, i + 1)

\* re.sub(r'\(.*?\)', '', from_clause)
RECURSIVE RemoveParens(_)
RemoveParens(s) ==
    IF s = <<>> THEN s
    ELSE IF s[1] = "(" /\ FindParen(s, 2) > 0
         THEN RemoveParens(SubSeq(s, FindParen(s, 2) + 1, Len(s)))
         ELSE <<s[1]>> \o RemoveParens(Tail(s))

\* _check_implicit_cartesian: the penalty and the warning it appends
_check_implicit_cartesian(u) ==
    LET m == FromMatch(u)
        comma_count == IF m.found THEN Count(RemoveParens(m.clause), ",") ELSE 0
    IN  [penalty |-> comma_count * 20,
         warnings |-> IF comma_count > 0
                      THEN << <<"comma-separated tables", comma_count + 1>> >>
                      ELSE <<>>]

\* _count_tables
_count_tables(u) ==
    LET m == FromMatch(u)
        from_clause == RemoveParens(m.clause)
    IN  IF ~m.found THEN 1
        ELSE 1 + Count(from_clause, ",") + CountWord(from_clause, "JOIN")

\* _has_where_clause
_has_where_clause(u) == HasWord(u, "WHERE")

\* re.search(r'\bJOIN\b.*\bON\b', query_upper): JOIN, then ON on the same line
JoinOn(u) ==
    \E i \in 1..Len(u) : \E j \in (i + 1)..Len(u) :
       /\ WordAt(u, i, "JOIN") /\ WordAt(u, j, "ON")
       /\ \A k \in (i + 1)..(j - 1) : u[k] # "\n"

\* re.search(r'\bSELECT\s+\*', query_upper)
SelectStar(u) ==
    \E i \in 1..Len(u) :
       /\ u[i] = "SELECT" /\ BoundaryBefore(u, i)
       /\ i < Len(u) /\ IsSpace(u[i + 1])
       /\ LET j == SkipSpaces(u, i + 1) IN j <= Len(u) /\ u[j] = "*"

\* len(re.findall(r'\(\s*SELECT\s+', query_upper))
SubqueryCount(u) ==
    Cardinality({i \in 1..Len(u) :
        /\ u[i] = "("
        /\ LET j == SkipSpaces(u, i + 1)
           IN  j < Len(u) /\ u[j] = "SELECT" /\ IsSpace(u[j + 1])})

\* the number of leftmost non-overlapping matches, given for each start
\* index the index where a match starting there ends (0: no match there)
RECURSIVE ScanCount(_, _, _)
ScanCount(ends, i, n) ==
    IF i > n THEN 0
    ELSE IF ends[i] > 0 THEN 1 + ScanCount(ends, ends[i] + 1, n)
    ELSE ScanCount(ends, i + 1, n)

\* \bWITH\s+\w+\s+AS\s*\( starting at i: where it ends, or 0
CteEnd(u, i) ==
    LET n == Len(u)
        a == SkipSpaces(u, i + 1)
        b == WordEnd(u, a)
        c == SkipSpaces(u, b + 1)
        d == SkipSpaces(u, c + 1)
    IN  IF /\ u[i] = "WITH" /\ BoundaryBefore(u, i)
           /\ i < n /\ IsSpace(u[i + 1])
           /\ a <= n /\ IsWord(u[a])
           /\ b < n /\ IsSpace(u[b + 1])
           /\ c <= n /\ u[c] = "AS"
           /\ d <= n /\ u[d] = "("
        THEN d ELSE 0
CteCount(u) == ScanCount([i \in 1..Len(u) |-> CteEnd(u, i)], 1, Len(u))

window_functions ==
    {"ROW_NUMBER", "RANK", "DENSE_RANK", "NTILE", "LAG", "LEAD",
     "FIRST_VALUE", "LAST_VALUE", "PERCENT_RANK", "CUME_DIST"}

\* the sum over the window functions K of len(re.findall(r'\bK\s*\(', ..))
WindowFunctionCount(u) ==
    Cardinality({i \in 1..Len(u) :
        /\ u[i] \in window_functions /\ BoundaryBefore(u, i)
        /\ LET j == SkipSpaces(u, i + 1) IN j <= Len(u) /\ u[j] = "("})

\* [A-Z_][A-Z0-9_]* can start at a word symbol that is not a number
IdentStart(c) == IsWord(c) /\ c \notin Digits

\* (?:FROM|JOIN)\s+([A-Z_][A-Z0-9_]*)\s+(?:AS\s+)?[A-Z_][A-Z0-9_]* at i:
\* where the match ends (0: none) and the table name it captures
TableRef(u, i) ==
    LET n == Len(u)
        a == SkipSpaces(u, i + 1)
        b == WordEnd(u, a)
        c == SkipSpaces(u, b + 1)
        d == SkipSpaces(u, c + 1)
        head == /\ u[i] \in {"FROM", "JOIN"}
                /\ i < n /\ IsSpace(u[i + 1])
                /\ a <= n /\ IdentStart(u[a])
                /\ b < n /\ IsSpace(u[b + 1])
                /\ c <= n
        withAs == /\ u[c] = "AS" /\ c < n /\ IsSpace(u[c + 1])
                  /\ d <= n /\ IdentStart(u[d])
    IN  IF ~head THEN [end |-> 0, name |-> <<>>]
        ELSE IF withAs THEN [end |-> WordEnd(u, d), name |-> SubSeq(u, a, b)]
        ELSE IF IdentStart(u[c]) THEN [end |-> WordEnd(u, c), name |-> SubSeq(u, a, b)]
        ELSE [end |-> 0, name |-> <<>>]

\* re.findall(table_pattern, query_upper)
RECURSIVE TableRefsFrom(_, _)
TableRefsFrom(u, i) ==
    IF i > Len(u) THEN <<>>
    ELSE LET m == TableRef(u, i)
         IN  IF m.end > 0 THEN <<m.name>> \o TableRefsFrom(u, m.end + 1)
             ELSE TableRefsFrom(u, i + 1)

\* the tables that Counter(table_references) counts more than once
SelfJoinCount(u) ==
    LET refs == TableRefsFrom(u, 1)
        names == {refs[i] : i \in 1..Len(refs)}
    IN  Cardinality({nm \in names :
            Cardinality({i \in 1..Len(refs) : refs[i] = nm}) > 1})

\* len(re.findall(r"LIKE\s+['\"]%", query_upper))
LeadingWildcardCount(u) ==
    Cardinality({i \in 1..Len(u) :
        /\ u[i] = "LIKE" /\ i < Len(u) /\ IsSpace(u[i + 1])
        /\ LET j == SkipSpaces(u, i + 1)
           IN  j < Len(u) /\ u[j] \in {"'", "\""} /\ u[j + 1] = "%"})

\* sum(1 for agg in aggregates if agg in query_upper)
AggregateCount(u) ==
    Cardinality({agg \in {"COUNT", "SUM", "AVG", "MAX", "MIN"} : Contains(u, agg)})
    + (IF ContainsPair(u, "GROUP", "BY") THEN 1 ELSE 0)

Unsafe(msg) == [is_safe |-> FALSE, error_message |-> msg, warnings |-> <<>>,
                complexity_score |-> 0]

When(cond, w) == IF cond THEN <<w>> ELSE <<>>

\* validate, step 6: multi-table, no WHERE, no JOIN ... ON
CartesianRejectedNever(u, table_count) == FALSE
CartesianRejected(u, table_count) ==
    table_count > 1 /\ ~_has_where_clause(u) /\ ~JoinOn(u)

\* validate, step 16: if complexity_score > self.max_complexity
ExceedsMaximumNever(complexity_score) == FALSE
ExceedsMaximum(complexity_score) == complexity_score > MAX_COMPLEXITY_SCORE

\* validate, steps 4 to 16, on the comment-stripped upper-case text
ScoreAndVerdict(u) ==
    LET cart == _check_implicit_cartesian(u)
        table_count == _count_tables(u)
        multi == table_count > 1
        star == multi /\ SelectStar(u)
        subquery_count == SubqueryCount(u)
        cte_count == CteCount(u)
        window_function_count == WindowFunctionCount(u)
        self_joins == SelfJoinCount(u)
        leading_wildcard_count == LeadingWildcardCount(u)
        or_count == CountWord(u, "OR")
        distinct == Contains(u, "DISTINCT")
        aggregate_count == AggregateCount(u)
        complexity_score ==
            cart.penalty
            + table_count * 5
            + (IF star THEN 10 ELSE 0)
            + subquery_count * 10
            + (IF subquery_count > 2 THEN (subquery_count - 2) * 5 ELSE 0)
            + cte_count * 8
            + window_function_count * 12
            + self_joins * 15
            + leading_wildcard_count * 10
            + (IF or_count > 2 THEN (or_count - 2) * 4 ELSE 0)
            + (IF distinct THEN 5 ELSE 0)
            + aggregate_count * 3
        warnings ==
            cart.warnings
            \o When(multi, <<"tables", table_count>>)
            \o When(multi /\ ~_has_where_clause(u), <<"multi-table without WHERE">>)
            \o When(star, <<"SELECT * with multiple tables">>)
            \o When(subquery_count > 0, <<"subqueries", subquery_count>>)
            \o When(subquery_count > 2, <<"deep nesting", subquery_count>>)
            \o When(cte_count > 0, <<"CTEs", cte_count>>)
            \o When(window_function_count > 0, <<"window functions", window_function_count>>)
            \o When(self_joins > 0, <<"self-joins", self_joins>>)
            \o When(leading_wildcard_count > 0, <<"leading wildcards", leading_wildcard_count>>)
            \o When(or_count > 2, <<"OR conditions", or_count>>)
            \o When(distinct, <<"DISTINCT">>)
    IN  IF CartesianRejected(u, table_count)
        THEN Unsafe(<<"Multi-table query without WHERE clause or JOIN ON conditions">>)
        ELSE IF ExceedsMaximum(complexity_score)
        THEN [is_safe |-> FALSE,
              error_message |-> <<"Query complexity score exceeds maximum",
                                  complexity_score, MAX_COMPLEXITY_SCORE>>,
              warnings |-> warnings, complexity_score |-> complexity_score]
        ELSE [is_safe |-> TRUE, error_message |-> <<"None">>,
              warnings |-> warnings, complexity_score |-> complexity_score]

\* validate, step 1: the first blocked pattern found, 0 when none is
BlockedNoneFound(u) == 0
BlockedFound(u) ==
    LET hits == {k \in 1..Len(BLOCKED_KEYWORDS) : SearchPattern(u, BLOCKED_KEYWORDS[k])}
    IN  IF hits = {} THEN 0 ELSE CHOOSE k \in hits : \A j \in hits : k <= j

\* validate, step 3
DangerousFound(u) ==
    LET hits == {k \in 1..Len(DANGEROUS_PATTERNS) : SearchPattern(u, DANGEROUS_PATTERNS[k])}
    IN  IF allow_cross_joins \/ hits = {} THEN 0
        ELSE CHOOSE k \in hits : \A j \in hits : k <= j

\* validate, after the comments are stripped
validate_rules(text) ==
    LET u == upper(text)
    IN  IF BlockedFound(u) > 0
        THEN Unsafe(<<"Blocked operation detected", BLOCKED_KEYWORDS[BlockedFound(u)]>>)
        ELSE IF ~StartsWithSelect(u)
        THEN Unsafe(<<"Only SELECT queries are allowed">>)
        ELSE IF DangerousFound(u) > 0
        THEN Unsafe(<<"Dangerous pattern detected", DANGEROUS_PATTERNS[DangerousFound(u)]>>)
        ELSE ScoreAndVerdict(u)

\* QueryValidator.validate
validate(query) == validate_rules(_strip_sql_comments(query))

\* [<>=]* from i: the first index at or after i that holds none of them
RECURSIVE SkipComparators(_, _)
SkipComparators(s, i) ==
    IF i <= Len(s) /\ s[i] \in {"<", ">", "="} THEN SkipComparators(s, i + 1) ELSE i

\* _has_rownum_constraint
_has_rownum_constraint(query) ==
    LET u == upper(query)
        n == Len(u)
        \* \bROWNUM\s*[<>=]+\s*\d+
        compared(i) ==
            /\ u[i] = "ROWNUM" /\ BoundaryBefore(u, i)
            /\ LET j == SkipSpaces(u, i + 1)
                   k == SkipComparators(u, j)
                   d == SkipSpaces(u, k)
               IN  k > j /\ d <= n /\ u[d] \in Digits
        \* WHERE\s+ROWNUM\s*<=
        wrapped(i) ==
            /\ u[i] = "WHERE" /\ i < n /\ IsSpace(u[i + 1])
            /\ LET j == SkipSpaces(u, i + 1)
                   k == SkipSpaces(u, j + 1)
               IN  /\ j <= n /\ u[j] = "ROWNUM"
                   /\ k < n /\ u[k] = "<" /\ u[k + 1] = "="
    IN  \E i \in 1..n : compared(i) \/ wrapped(i)

\* wrap_with_row_limit
wrap_with_row_limit(query) ==
    LET query_stripped == strip(query)
        query_upper == upper(query_stripped)
        limit == <<"ROWNUM", " ", "<", "=", " ", max_rows>>
    IN  IF _has_rownum_constraint(query_stripped) THEN query_stripped
        ELSE IF ContainsPair(query_upper, "ORDER", "BY")
        THEN <<"SELECT", " ", "*", " ", "FROM", " ", "(", "\n", " ", " ", " ", " ">>
             \o query_stripped \o <<"\n", ")", " ", "WHERE", " ">> \o limit
        ELSE IF Contains(query_upper, "WHERE")
        THEN query_stripped \o <<" ", "AND", " ">> \o limit
        ELSE query_stripped \o <<" ", "WHERE", " ">> \o limit

-----------------------------------------------------------------------------
(* QueryApprovalTracker *)

_hash_query_case_sensitive(query) == sha256(join(split(strip(query))))

\* _hash_query: sha256 of ' '.join(query.strip().lower().split())
_hash_query(query) == sha256(join(split(lower(strip(query)))))

_cleanup_expired_at_boundary(appr, t) ==
    LET keep == {k \in DOMAIN appr : ~(t - appr[k].timestamp >= token_expiry)}
    IN  [k \in keep |-> appr[k]]

\* _cleanup_expired: drop every record with now - timestamp > token_expiry
_cleanup_expired(appr, t) ==
    LET keep == {k \in DOMAIN appr : ~(t - appr[k].timestamp > token_expiry)}
    IN  [k \in keep |-> appr[k]]

\* async with self.lock: the lock can be taken when nobody holds it
LockFreeNoLock(l) == TRUE
LockFree(l) == l = NoTask

MsgNone == ""
MsgMissing == "No approval token provided"
MsgInvalid == "Invalid or expired approval token"
MsgMismatch == "Query does not match approved query"

IdleArg == [query |-> <<>>, token |-> NoToken]
NoValidation == [is_safe |-> FALSE, error_message |-> "unset",
                 warnings |-> <<>>, complexity_score |-> 0]
IdleLoc == [ret |-> <<FALSE, MsgNone>>, token |-> NoToken,
            validation |-> NoValidation, safe_query |-> <<>>,
            outcome |-> "none"]
NoResult == [kind |-> "none"]
IdleCall == [sweep_now |-> 0, used_before |-> FALSE, verified |-> FALSE]

\* tokens this run may still draw: one per task already inside generate
Generating == {t \in Tasks : pc[t] \in {"g_acquire", "g_body"}}

\* generate_approval_token, entry: async with self.lock
GenAcquire(t) ==
    /\ pc[t] = "g_acquire"
    /\ LockFree(tracker_lock)
    /\ tracker_lock' = t
    /\ pc' = [pc EXCEPT ![t] = "g_body"]
    /\ UNCHANGED <<pool, now, approvals, issued, requests, cb, op, arg, loc,
                   result, hist, input, vout>>

\* the record generate_approval_token stores for a query
NewApproval(query, t) == [query_hash |-> _hash_query(query), timestamp |-> t]

\* generate_approval_token, body: fresh token, store, sweep, release, return
GenBody(t) ==
    /\ pc[t] = "g_body"
    /\ LET token == issued + 1
           stored == [k \in DOMAIN approvals \cup {token} |->
                        IF k = token THEN NewApproval(arg[t].query, now)
                        ELSE approvals[k]]
       IN  /\ approvals' = _cleanup_expired(stored, now)
           /\ issued' = token
           /\ loc' = [loc EXCEPT ![t].token = token]
           /\ hist' = [hist EXCEPT !.issuedQ = Append(@, arg[t].query),
                                   !.issuedAt = Append(@, now),
                                   !.accepts = Append(@, 0)]
    /\ tracker_lock' = NoTask
    /\ pc' = [pc EXCEPT ![t] = "g_return"]
    /\ UNCHANGED <<pool, now, requests, cb, op, arg, result, input, vout>>

\* verify_approval, entry: async with self.lock, then _cleanup_expired()
VerifyAcquire(t) ==
    /\ pc[t] = "v_acquire"
    /\ LockFree(tracker_lock)
    /\ tracker_lock' = t
    /\ approvals' = _cleanup_expired(approvals, now)
    /\ hist' = [hist EXCEPT !.call[t] =
                  [sweep_now |-> now,
                   used_before |-> /\ arg[t].token \in 1..issued
                                   /\ hist.accepts[arg[t].token] > 0,
                   verified |-> FALSE]]
    /\ pc' = [pc EXCEPT ![t] = "v_check"]
    /\ UNCHANGED <<pool, now, issued, requests, cb, op, arg, loc, result, input, vout>>

\* verify_approval: the three checks on the token; (ok, reason) or "pass"
VerifyVerdictNoMatch(appr, query, token) ==
    IF token = NoToken THEN <<FALSE, MsgMissing>>
    ELSE IF token \notin DOMAIN appr THEN <<FALSE, MsgInvalid>>
    ELSE <<TRUE, MsgNone>>
VerifyVerdict(appr, query, token) ==
    IF token = NoToken THEN <<FALSE, MsgMissing>>
    ELSE IF token \notin DOMAIN appr THEN <<FALSE, MsgInvalid>>
    ELSE IF _hash_query(query) # appr[token].query_hash
         THEN <<FALSE, MsgMismatch>>
    ELSE <<TRUE, MsgNone>>

\* verify_approval, checks: a failed check releases the lock and returns
VerifyCheck(t) ==
    /\ pc[t] = "v_check"
    /\ LET v == VerifyVerdict(approvals, arg[t].query, arg[t].token)
       IN  IF v[1]
           THEN /\ pc' = [pc EXCEPT ![t] = "v_consume"]
                /\ UNCHANGED <<tracker_lock, loc>>
           ELSE /\ pc' = [pc EXCEPT ![t] = "v_return"]
                /\ loc' = [loc EXCEPT ![t].ret = v]
                /\ tracker_lock' = IF tracker_lock = t THEN NoTask
                                   ELSE tracker_lock
    /\ UNCHANGED <<pool, now, approvals, issued, requests, cb, op, arg, result,
                   hist, input, vout>>

\* del self.approvals[token]
ConsumeKeep(appr, token) == appr
Consume(appr, token) == [k \in DOMAIN appr \ {token} |-> appr[k]]

\* verify_approval, success: consume the token, release, return (True, "")
VerifyConsume(t) ==
    /\ pc[t] = "v_consume"
    /\ approvals' = Consume(approvals, arg[t].token)
    /\ loc' = [loc EXCEPT ![t].ret = <<TRUE, MsgNone>>]
    /\ hist' = [hist EXCEPT !.accepts[arg[t].token] = Min(@ + 1, 2),
                            !.call[t].verified = TRUE]
    /\ tracker_lock' = IF tracker_lock = t THEN NoTask ELSE tracker_lock
    /\ pc' = [pc EXCEPT ![t] = "v_return"]
    /\ UNCHANGED <<pool, now, issued, requests, cb, op, arg, result, input, vout>>

\* time passes
Tick ==
    /\ now < MaxTime
    /\ now' = now + 1
    /\ UNCHANGED <<pool, approvals, tracker_lock, issued, requests, cb, pc, op,
                   arg, loc, result, hist, input, vout>>

-----------------------------------------------------------------------------
(* Direct callers of the tracker, as in test_approval_workflow.py *)

RECURSIVE SeqsUpTo(_, _)
SeqsUpTo(S, n) ==
    IF n = 0 THEN {<<>>}
    ELSE LET shorter == SeqsUpTo(S, n - 1)
         IN  shorter \cup {Append(s, c) : s \in {x \in shorter : Len(x) = n - 1}, c \in S}

\* "SELECT t", the same up to case and whitespace, and another query
TrackerQueries == {<<"SELECT", " ", "t">>,
                   <<" ", "select", "\n", " ", "T">>,
                   <<"SELECT", " ", "u">>}

StartGenerate(t, q) ==
    /\ pc[t] = "idle"
    /\ issued + Cardinality(Generating) < MaxTokens
    /\ pc' = [pc EXCEPT ![t] = "g_acquire"]
    /\ op' = [op EXCEPT ![t] = "generate"]
    /\ arg' = [arg EXCEPT ![t] = [query |-> q, token |-> NoToken]]
    /\ UNCHANGED <<pool, now, approvals, tracker_lock, issued, requests, cb, loc,
                   result, hist, input, vout>>

StartVerify(t, q, tok) ==
    /\ pc[t] = "idle"
    /\ pc' = [pc EXCEPT ![t] = "v_acquire"]
    /\ op' = [op EXCEPT ![t] = "verify"]
    /\ arg' = [arg EXCEPT ![t] = [query |-> q, token |-> tok]]
    /\ UNCHANGED <<pool, now, approvals, tracker_lock, issued, requests, cb, loc,
                   result, hist, input, vout>>

\* the caller has read the return value; the task is free again
Finish(t) ==
    /\ \/ op[t] \in {"generate", "verify"} /\ pc[t] \in {"g_return", "v_return"}
       \/ pc[t] = "done"
    /\ pc' = [pc EXCEPT ![t] = "idle"]
    /\ op' = [op EXCEPT ![t] = "none"]
    /\ arg' = [arg EXCEPT ![t] = IdleArg]
    /\ loc' = [loc EXCEPT ![t] = IdleLoc]
    /\ result' = [result EXCEPT ![t] = NoResult]
    /\ hist' = [hist EXCEPT !.call[t] = IdleCall]
    /\ UNCHANGED <<pool, now, approvals, tracker_lock, issued, requests, cb, input, vout>>

\* ConnectionPool.__init__ and _initialize_pool: max_connections connections,
\* each with its child started and ready, nothing locked
max_connections == 2
ConnIds == 0..(max_connections - 1)
NewConnection == [process |-> "running", child |-> "idle", lock |-> NoTask,
                  is_busy |-> FALSE]
NewPool == [pool_lock |-> NoTask, connections |-> [c \in ConnIds |-> NewConnection]]

\* the server's module-level objects as constructed, no call in progress
ServerInit ==
    /\ now = 0
    /\ approvals = <<>>
    /\ tracker_lock = NoTask
    /\ issued = 0
    /\ requests = <<>>
    /\ cb = [state |-> "CLOSED", failure_count |-> 0, success_count |-> 0,
             last_failure_time |-> -1, lock |-> NoTask]
    /\ pc = [t \in Tasks |-> "idle"]
    /\ op = [t \in Tasks |-> "none"]
    /\ arg = [t \in Tasks |-> IdleArg]
    /\ loc = [t \in Tasks |-> IdleLoc]
    /\ result = [t \in Tasks |-> NoResult]
    /\ hist = [issuedQ |-> <<>>, issuedAt |-> <<>>, accepts |-> <<>>,
               call |-> [t \in Tasks |-> IdleCall], poolCalls |-> 0,
               breaker |-> <<>>]
    /\ pool = NewPool

Init ==
    /\ ServerInit
    /\ input = <<>>
    /\ vout = [stage |-> "off"]

TrackerCaller == 1

TrackerNext ==
    \/ Tick
    \/ \E q \in TrackerQueries : StartGenerate(TrackerCaller, q)
    \/ \E q \in TrackerQueries, tok \in TokenIds \cup {NoToken} :
          StartVerify(TrackerCaller, q, tok)
    \/ GenAcquire(TrackerCaller)
    \/ GenBody(TrackerCaller)
    \/ VerifyAcquire(TrackerCaller)
    \/ VerifyCheck(TrackerCaller)
    \/ VerifyConsume(TrackerCaller)
    \/ Finish(TrackerCaller)

SpecTracker == Init /\ [][TrackerNext]_vars

-----------------------------------------------------------------------------
(* RateLimiter, CircuitBreaker and the preview_query / query_oracle handlers *)

\* is_allowed: drop the requests older than the window, then admit or refuse
RECURSIVE DropOld(_, _)
DropOld(reqs, t) ==
    IF reqs # <<>> /\ Head(reqs) < t - time_window
    THEN DropOld(Tail(reqs), t) ELSE reqs
is_allowedOneMore(reqs, t) ==
    LET kept == DropOld(reqs, t)
    IN  IF Len(kept) > max_requests
        THEN [allowed |-> FALSE, requests |-> kept]
        ELSE [allowed |-> TRUE, requests |-> Append(kept, t)]
is_allowed(reqs, t) ==
    LET kept == DropOld(reqs, t)
    IN  IF Len(kept) >= max_requests
        THEN [allowed |-> FALSE, requests |-> kept]
        ELSE [allowed |-> TRUE, requests |-> Append(kept, t)]

\* if not validation.is_safe: return the blocked response
BlocksNever(validation) == FALSE
Blocks(validation) == ~validation.is_safe

\* the calls of one client: no query, a safe query, an unsafe query
ClientQueries ==
    {<<>>, <<"SELECT", " ", "t">>, <<"delete", " ", "t">>}
\* a second client runs query_oracle at the same time, with the safe query
\* written in another case and with other whitespace
RivalQueries == {<<" ", "select", "\n", " ", "T">>}
Client == 1
Rival == 2

\* the tokens a caller can present: none, or one that a preview has returned
\* (secrets.token_hex(16) cannot be guessed before it is issued)
Presentable == {NoToken} \cup (1..issued)

Respond(t, r) ==
    /\ result' = [result EXCEPT ![t] = r]
    /\ pc' = [pc EXCEPT ![t] = "done"]

RequiredError == [kind |-> "text", text |-> "Error: 'query' parameter is required"]

StartPreviewCounted(t, q) ==
    /\ pc[t] = "idle"
    /\ issued + Cardinality(Generating) < MaxTokens
    /\ op' = [op EXCEPT ![t] = "preview_query"]
    /\ arg' = [arg EXCEPT ![t] = [query |-> q, token |-> NoToken]]
    /\ requests' = is_allowed(requests, now).requests
    /\ IF q = <<>>
       THEN /\ Respond(t, RequiredError)
            /\ UNCHANGED loc
       ELSE /\ loc' = [loc EXCEPT ![t].validation = validate(q),
                                  ![t].safe_query = wrap_with_row_limit(q)]
            /\ pc' = [pc EXCEPT ![t] = "g_acquire"]
            /\ UNCHANGED result
    /\ UNCHANGED <<pool, now, approvals, tracker_lock, issued, cb, hist, input, vout>>

\* preview_query up to the call of generate_approval_token
StartPreview(t, q) ==
    /\ pc[t] = "idle"
    /\ issued + Cardinality(Generating) < MaxTokens
    /\ op' = [op EXCEPT ![t] = "preview_query"]
    /\ arg' = [arg EXCEPT ![t] = [query |-> q, token |-> NoToken]]
    /\ IF q = <<>>
       THEN /\ Respond(t, RequiredError)
            /\ UNCHANGED loc
       ELSE /\ loc' = [loc EXCEPT ![t].validation = validate(q),
                                  ![t].safe_query = wrap_with_row_limit(q)]
            /\ pc' = [pc EXCEPT ![t] = "g_acquire"]
            /\ UNCHANGED result
    /\ UNCHANGED <<pool, now, approvals, tracker_lock, issued, requests, cb, hist,
                   input, vout>>

\* preview_query after generate_approval_token: the preview response
PreviewRespond(t) ==
    /\ pc[t] = "g_return" /\ op[t] = "preview_query"
    /\ LET validation == loc[t].validation
           row_limit_applied == loc[t].safe_query # arg[t].query
       IN  Respond(t, [kind |-> "preview",
                       query_to_execute |-> arg[t].query,
                       safe_query_with_limit |->
                          IF row_limit_applied THEN loc[t].safe_query
                          ELSE <<"None">>,
                       is_safe |-> validation.is_safe,
                       complexity_score |-> validation.complexity_score,
                       warnings |-> validation.warnings,
                       error_message |->
                          IF ~validation.is_safe THEN validation.error_message
                          ELSE <<"None">>,
                       token |-> loc[t].token])
    /\ UNCHANGED <<pool, now, approvals, tracker_lock, issued, requests, cb, op,
                   arg, loc, hist, input, vout>>

\* query_oracle up to the call of verify_approval
StartQuery(t, q, tok) ==
    /\ pc[t] = "idle"
    /\ op' = [op EXCEPT ![t] = "query_oracle"]
    /\ arg' = [arg EXCEPT ![t] = [query |-> q, token |-> tok]]
    /\ IF q = <<>>
       THEN Respond(t, RequiredError)
       ELSE pc' = [pc EXCEPT ![t] = "v_acquire"] /\ UNCHANGED result
    /\ UNCHANGED <<pool, now, approvals, tracker_lock, issued, requests, cb, loc,
                   hist, input, vout>>

AdmitRateFirst(t, is_approved, limit, validation) ==
    /\ requests' = limit.requests
    /\ IF ~limit.allowed
       THEN /\ Respond(t, [kind |-> "text", text |-> "Rate limit exceeded"])
            /\ UNCHANGED loc
       ELSE IF ~is_approved
       THEN /\ Respond(t, [kind |-> "text", text |-> loc[t].ret[2]])
            /\ UNCHANGED loc
       ELSE IF Blocks(validation)
       THEN /\ Respond(t, [kind |-> "blocked", success |-> FALSE,
                           error |-> validation.error_message,
                           complexity_score |-> validation.complexity_score,
                           warnings |-> validation.warnings])
            /\ UNCHANGED loc
       ELSE /\ loc' = [loc EXCEPT
                         ![t].validation = validation,
                         ![t].safe_query = wrap_with_row_limit(arg[t].query)]
            /\ pc' = [pc EXCEPT ![t] = "cb_enter"]
            /\ UNCHANGED result

\* query_oracle after verify_approval: the approval verdict, the rate limit,
\* the validation verdict, the row limit
Admit(t, is_approved, limit, validation) ==
    IF ~is_approved
    THEN /\ Respond(t, [kind |-> "text", text |-> loc[t].ret[2]])
         /\ UNCHANGED <<requests, loc>>
    ELSE /\ requests' = limit.requests
         /\ IF ~limit.allowed
            THEN /\ Respond(t, [kind |-> "text", text |-> "Rate limit exceeded"])
                 /\ UNCHANGED loc
            ELSE IF Blocks(validation)
            THEN /\ Respond(t, [kind |-> "blocked", success |-> FALSE,
                                error |-> validation.error_message,
                                complexity_score |-> validation.complexity_score,
                                warnings |-> validation.warnings])
                 /\ UNCHANGED loc
            ELSE /\ loc' = [loc EXCEPT
                              ![t].validation = validation,
                              ![t].safe_query = wrap_with_row_limit(arg[t].query)]
                 /\ pc' = [pc EXCEPT ![t] = "cb_enter"]
                 /\ UNCHANGED result

\* query_oracle from the return of verify_approval to circuit_breaker.call
QueryAdmit(t) ==
    /\ pc[t] = "v_return" /\ op[t] = "query_oracle"
    /\ Admit(t, loc[t].ret[1], is_allowed(requests, now), validate(arg[t].query))
    /\ UNCHANGED <<pool, now, approvals, tracker_lock, issued, cb, op, arg, hist,
                   input, vout>>

\* CircuitBreaker.call: OPEN, and the recovery timeout has not elapsed
RejectsNever(b, t) == FALSE
Rejects(b, t) ==
    b.state = "OPEN" /\ ~(t - b.last_failure_time >= recovery_timeout)

\* CircuitBreaker.call, first locked section: reject while OPEN, or go on
BreakerEnter(t) ==
    /\ pc[t] = "cb_enter"
    /\ IF Rejects(cb, now)
       THEN \* RuntimeError, caught by query_oracle's except RuntimeError
            /\ Respond(t, [kind |-> "text", text |-> "Circuit breaker is OPEN",
                           retry_in |-> recovery_timeout - (now - cb.last_failure_time)])
            /\ hist' = [hist EXCEPT !.breaker = Append(@, "rejected")]
            /\ UNCHANGED cb
       ELSE /\ cb' = IF cb.state = "OPEN"
                     THEN [cb EXCEPT !.state = "HALF_OPEN", !.success_count = 0]
                     ELSE cb
            /\ hist' = IF cb.state = "OPEN"
                       THEN [hist EXCEPT !.breaker = Append(@, "half-open")]
                       ELSE hist
            /\ pc' = [pc EXCEPT ![t] = "cb_call"]
            /\ UNCHANGED result
    /\ UNCHANGED <<pool, now, approvals, tracker_lock, issued, requests, op, arg,
                   loc, input, vout>>

\* what db.execute(safe_query) can do: return rows, return a failure
\* result, raise RuntimeError, raise another exception
Outcomes == {"rows", "failure result", "RuntimeError", "Exception"}
Raises(outcome) == outcome \in {"RuntimeError", "Exception"}

\* CircuitBreaker.call: func(*args), here db.execute(safe_query)
PoolExecute(t, outcome) ==
    /\ pc[t] = "cb_call"
    /\ loc' = [loc EXCEPT ![t].outcome = outcome]
    /\ hist' = [hist EXCEPT !.poolCalls = @ + 1]
    /\ pc' = [pc EXCEPT ![t] = "cb_update"]
    /\ UNCHANGED <<pool, now, approvals, tracker_lock, issued, requests, cb, op,
                   arg, result, input, vout>>

OnSuccessKeepsCount(b) ==
    IF b.state # "HALF_OPEN" THEN b
    ELSE IF b.success_count + 1 >= success_threshold
    THEN [b EXCEPT !.state = "CLOSED", !.success_count = 0]
    ELSE [b EXCEPT !.success_count = b.success_count + 1]

OnSuccessClosesAtOnce(b) ==
    LET reset == [b EXCEPT !.failure_count = 0]
    IN  IF b.state # "HALF_OPEN" THEN reset
        ELSE [reset EXCEPT !.state = "CLOSED", !.success_count = 0]

\* CircuitBreaker.call, locked section after a return of func
OnSuccess(b) ==
    LET reset == [b EXCEPT !.failure_count = 0]
    IN  IF b.state # "HALF_OPEN" THEN reset
        ELSE IF b.success_count + 1 >= success_threshold
        THEN [reset EXCEPT !.state = "CLOSED", !.success_count = 0]
        ELSE [reset EXCEPT !.success_count = b.success_count + 1]

OnFailureKeepsTime(b, t) ==
    LET counted == [b EXCEPT !.failure_count = b.failure_count + 1,
                             !.success_count = 0]
    IN  IF b.state = "HALF_OPEN" \/ counted.failure_count >= failure_threshold
        THEN [counted EXCEPT !.state = "OPEN"]
        ELSE counted

\* CircuitBreaker.call, locked section after an exception of func
OnFailure(b, t) ==
    LET counted == [b EXCEPT !.failure_count = b.failure_count + 1,
                             !.last_failure_time = t,
                             !.success_count = 0]
    IN  IF b.state = "HALF_OPEN" \/ counted.failure_count >= failure_threshold
        THEN [counted EXCEPT !.state = "OPEN"]
        ELSE counted

\* CircuitBreaker.call after func, and query_oracle's response
BreakerUpdate(t) ==
    /\ pc[t] = "cb_update"
    /\ LET outcome == loc[t].outcome
           validation == loc[t].validation
       IN  /\ cb' = IF Raises(outcome) THEN OnFailure(cb, now) ELSE OnSuccess(cb)
           /\ Respond(t,
                CASE outcome = "rows" ->
                       [kind |-> "rows", success |-> TRUE,
                        complexity_score |-> validation.complexity_score,
                        warnings |-> validation.warnings,
                        row_limit_applied |-> loc[t].safe_query # arg[t].query]
                  [] outcome = "failure result" ->
                       [kind |-> "text", text |-> "Error executing query"]
                  [] outcome = "RuntimeError" ->
                       [kind |-> "text", text |-> "Error: RuntimeError of db.execute"]
                  [] OTHER ->
                       [kind |-> "text", text |-> "Error: exception of db.execute"])
           /\ hist' = [hist EXCEPT !.breaker =
                          Append(@, IF Raises(outcome) THEN "failure" ELSE "success")]
    /\ UNCHANGED <<pool, now, approvals, tracker_lock, issued, requests, op, arg,
                   loc, input, vout>>

Next ==
    \/ Tick
    \/ \E q \in ClientQueries : StartPreview(Client, q)
    \/ \E q \in ClientQueries, tok \in Presentable : StartQuery(Client, q, tok)
    \/ \E q \in RivalQueries, tok \in Presentable : StartQuery(Rival, q, tok)
    \/ \E t \in Tasks : GenAcquire(t)
    \/ \E t \in Tasks : GenBody(t)
    \/ \E t \in Tasks : PreviewRespond(t)
    \/ \E t \in Tasks : VerifyAcquire(t)
    \/ \E t \in Tasks : VerifyCheck(t)
    \/ \E t \in Tasks : VerifyConsume(t)
    \/ \E t \in Tasks : QueryAdmit(t)
    \/ \E t \in Tasks : BreakerEnter(t)
    \/ \E t \in Tasks, outcome \in Outcomes : PoolExecute(t, outcome)
    \/ \E t \in Tasks : BreakerUpdate(t)
    \/ \E t \in Tasks : Finish(t)

Spec == Init /\ [][Next]_vars

-----------------------------------------------------------------------------
(* The fingerprint harness: one token for input.q1, then verify input.q2,   *)
(* as test_token_query_matching and test_token_whitespace_normalization do *)

FpIssuedAlphabet == {"a", "A", " "}
FpAlphabet == {"a", "A", " ", "\n"}

InitFingerprint ==
    /\ ServerInit
    /\ input \in [q1 : SeqsUpTo(FpIssuedAlphabet, MaxQLen),
                  q2 : SeqsUpTo(FpAlphabet, MaxQLen)]
    /\ vout = [stage |-> "fingerprint"]

FpGenerate == issued = 0 /\ StartGenerate(TrackerCaller, input.q1)
FpVerify == issued = 1 /\ StartVerify(TrackerCaller, input.q2, 1)

FingerprintNext ==
    \/ FpGenerate
    \/ FpVerify
    \/ GenAcquire(TrackerCaller)
    \/ GenBody(TrackerCaller)
    \/ VerifyAcquire(TrackerCaller)
    \/ VerifyCheck(TrackerCaller)
    \/ VerifyConsume(TrackerCaller)
    \/ Finish(TrackerCaller)

SpecFingerprint == InitFingerprint /\ [][FingerprintNext]_vars

-----------------------------------------------------------------------------
(* Claims about the approval tracker *)

\* what a returned verify_approval call was asked and what it saw
Returned(t) == pc[t] = "v_return" /\ arg[t].token \in 1..issued
AgeAtSweep(t) == hist.call[t].sweep_now - hist.issuedAt[arg[t].token]
OwnQuery(t) == arg[t].query = hist.issuedQ[arg[t].token]

\* C2: a token that is within expiry and not yet used is accepted for the
\* query it was issued for with (True, ""); once it has been accepted, every
\* later verification of it is refused as invalid or expired, so no token is
\* accepted twice.
C2_TokenAcceptedAtMostOnce ==
    /\ \A t \in Tasks :
          Returned(t) /\ OwnQuery(t) =>
             /\ (~hist.call[t].used_before /\ AgeAtSweep(t) <= token_expiry
                   => loc[t].ret = <<TRUE, MsgNone>>)
             /\ (hist.call[t].used_before => loc[t].ret = <<FALSE, MsgInvalid>>)
    /\ \A k \in 1..issued : hist.accepts[k] <= 1

C2_Witness ==
    \E t \in Tasks :
       /\ Returned(t) /\ OwnQuery(t)
       /\ hist.call[t].used_before
       /\ AgeAtSweep(t) <= token_expiry
       /\ loc[t].ret = <<FALSE, MsgInvalid>>

\* the claim's fingerprint, computed without the code's split and join:
\* lowercase; keep a whitespace character only when it is the first of a run
\* that has text on both sides, and then as one space
ClaimFingerprint(q) ==
    LET l == lower(q)
        n == Len(l)
        inner(i) == /\ i > 1 /\ ~IsSpace(l[i-1])
                    /\ \E j \in (i+1)..n : ~IsSpace(l[j])
        kept == {i \in 1..n : ~IsSpace(l[i]) \/ inner(i)}
        nth[k \in 0..n] ==
            IF k = 0 THEN 0
            ELSE CHOOSE i \in kept : i > nth[k-1] /\ \A j \in kept : j > nth[k-1] => i <= j
    IN  [k \in 1..Cardinality(kept) |->
           IF IsSpace(l[nth[k]]) THEN " " ELSE l[nth[k]]]

\* C3: with a stored, unexpired token issued for q1, verify_approval(q2, t)
\* succeeds exactly when q1 and q2 are equal after lowercasing, trimming and
\* collapsing whitespace runs; when they differ the reason is the mismatch.
C3_FingerprintBinding ==
    \A t \in Tasks :
       Returned(t) /\ ~hist.call[t].used_before /\ AgeAtSweep(t) <= token_expiry =>
          LET same == ClaimFingerprint(arg[t].query)
                        = ClaimFingerprint(hist.issuedQ[arg[t].token])
          IN  /\ loc[t].ret[1] <=> same
              /\ (~same => loc[t].ret = <<FALSE, MsgMismatch>>)
              /\ (same => loc[t].ret = <<TRUE, MsgNone>>)

\* accepted for a query that differs from the issued one in case and whitespace
C3_Witness ==
    \E t \in Tasks :
       /\ Returned(t) /\ loc[t].ret = <<TRUE, MsgNone>>
       /\ arg[t].query # hist.issuedQ[arg[t].token]
       /\ lower(arg[t].query) # lower(hist.issuedQ[arg[t].token])
       /\ \E i \in 1..Len(arg[t].query) :
             arg[t].query[i] # LowerSym(arg[t].query[i])

\* C4: verify_approval never accepts a token whose age at the sweep exceeds
\* token_expiry (it is swept and reported invalid or expired), and accepts an
\* unused token for its query at every age up to token_expiry, the boundary
\* included; after the sweep the table holds no record older than that.
C4_ExpiryBoundary ==
    /\ \A t \in Tasks :
          Returned(t) =>
             /\ (AgeAtSweep(t) > token_expiry => loc[t].ret = <<FALSE, MsgInvalid>>)
             /\ (AgeAtSweep(t) <= token_expiry /\ ~hist.call[t].used_before
                   /\ OwnQuery(t) => loc[t].ret = <<TRUE, MsgNone>>)
    /\ \A t \in Tasks :
          pc[t] = "v_check" =>
             \A k \in DOMAIN approvals :
                hist.call[t].sweep_now - approvals[k].timestamp <= token_expiry

\* a token accepted at exactly the boundary age
C4_Witness ==
    \E t \in Tasks :
       /\ Returned(t) /\ OwnQuery(t)
       /\ AgeAtSweep(t) = token_expiry
       /\ loc[t].ret = <<TRUE, MsgNone>>

\* a token refused one tick past the boundary
C4_WitnessExpired ==
    \E t \in Tasks :
       /\ Returned(t) /\ OwnQuery(t)
       /\ AgeAtSweep(t) = token_expiry + 1
       /\ loc[t].ret = <<FALSE, MsgInvalid>>

-----------------------------------------------------------------------------
(* preview_query and query_oracle *)

InBreaker(t) == pc[t] \in {"cb_enter", "cb_call", "cb_update"}
Consumed == {k \in 1..issued : hist.accepts[k] > 0}

\* C1: query_oracle hands a query to the circuit breaker and the pool only
\* after verify_approval has succeeded in that same call and has consumed a
\* token that an earlier preview issued for a query with the same
\* fingerprint; no two calls get there on the same token, and the number of
\* executions that reach the pool never exceeds the number of tokens issued.
C1_ExecutionNeedsConsumedToken ==
    /\ \A t \in Tasks :
          InBreaker(t) =>
             /\ op[t] = "query_oracle"
             /\ hist.call[t].verified
             /\ arg[t].token \in 1..issued
             /\ hist.accepts[arg[t].token] = 1
             /\ arg[t].token \notin DOMAIN approvals
             /\ ClaimFingerprint(arg[t].query)
                   = ClaimFingerprint(hist.issuedQ[arg[t].token])
    /\ \A t1, t2 \in Tasks :
          InBreaker(t1) /\ InBreaker(t2) /\ t1 # t2 => arg[t1].token # arg[t2].token
    /\ hist.poolCalls <= Cardinality(Consumed)
    /\ Cardinality(Consumed) <= issued

\* both tokens issued have been consumed, one by each client, for the query
\* written in two ways, and both executions have reached the pool
C1_Witness ==
    /\ issued = 2
    /\ hist.poolCalls = 2
    /\ InBreaker(Rival) /\ pc[Client] = "cb_update"
    /\ arg[Client].query # arg[Rival].query
    /\ hist.issuedQ[arg[Rival].token] # arg[Rival].query

InVerify(t) == pc[t] \in {"v_check", "v_consume"}
SameTokenCalls(t1, t2) ==
    /\ t1 # t2
    /\ pc[t1] = "v_return" /\ pc[t2] = "v_return"
    /\ arg[t1].token = arg[t2].token /\ arg[t1].token \in 1..issued
    /\ \A t \in {t1, t2} :
          ClaimFingerprint(arg[t].query)
             = ClaimFingerprint(hist.issuedQ[arg[t].token])

\* C5: of the verify_approval calls that run at the same time for one token
\* and a matching query, exactly one returns approved and the others return
\* not approved, however their steps interleave; the sweep, lookup,
\* fingerprint check and deletion of one call are never interleaved with
\* those of another.
C5_OneWinner ==
    /\ \A t1, t2 \in Tasks :
          InVerify(t1) /\ InVerify(t2) => t1 = t2
    /\ \A t \in Tasks : InVerify(t) => tracker_lock = t
    /\ \A t1, t2 \in Tasks :
          SameTokenCalls(t1, t2) =>
             /\ ~(loc[t1].ret[1] /\ loc[t2].ret[1])
             /\ ((\E t \in {t1, t2} : /\ ~hist.call[t].used_before
                                      /\ AgeAtSweep(t) <= token_expiry)
                   => loc[t1].ret[1] \/ loc[t2].ret[1])
             /\ \A t \in {t1, t2} : ~loc[t].ret[1] => loc[t].ret = <<FALSE, MsgInvalid>>

\* the two clients have verified the same token at the same time: the one
\* whose call took the lock first is approved, the other is refused
C5_Witness ==
    /\ SameTokenCalls(Client, Rival)
    /\ loc[Rival].ret = <<TRUE, MsgNone>>
    /\ loc[Client].ret = <<FALSE, MsgInvalid>>
    /\ hist.call[Client].used_before
    /\ AgeAtSweep(Client) <= token_expiry

\* one call inside the locked section of verify_approval while the other
\* call, for the same token, waits for the lock
C5_WitnessWaiting ==
    /\ pc[Client] = "v_consume" /\ pc[Rival] = "v_acquire"
    /\ arg[Client].token = arg[Rival].token

\* C6: query_oracle validates the query it receives again and never passes
\* a query to the circuit breaker and the pool when validate(query).is_safe
\* is false, although preview_query issues a valid token for an unsafe query
\* too; the blocked call returns success = false with the error, the
\* complexity score and the warnings of the validation.
C6_UnsafeNeverExecuted ==
    \A t \in Tasks :
       /\ InBreaker(t) => validate(arg[t].query).is_safe
       /\ op[t] = "query_oracle" /\ pc[t] = "done" /\ hist.call[t].verified
             /\ ~validate(arg[t].query).is_safe
          => \/ result[t] = [kind |-> "text", text |-> "Rate limit exceeded"]
             \/ result[t] =
                   [kind |-> "blocked", success |-> FALSE,
                    error |-> validate(arg[t].query).error_message,
                    complexity_score |-> validate(arg[t].query).complexity_score,
                    warnings |-> validate(arg[t].query).warnings]
       /\ result[t].kind = "blocked" => ~validate(arg[t].query).is_safe

\* the token that a preview issued for the unsafe query has been accepted
\* and consumed, and the call is blocked without any execution
C6_Witness ==
    /\ op[Client] = "query_oracle" /\ pc[Client] = "done"
    /\ hist.call[Client].verified
    /\ hist.issuedQ[arg[Client].token] = <<"delete", " ", "t">>
    /\ result[Client].kind = "blocked" /\ ~result[Client].success
    /\ result[Client].error = <<"Blocked operation detected", "DELETE">>
    /\ hist.poolCalls = 0

-----------------------------------------------------------------------------
(* QueryValidator.validate applied to queries put together from fragments *)

MaxFrags == 4

Fragments ==
    {<<"SELECT", " ", "*", " ">>, <<"WITH", " ">>, <<"FROM", " ", "t">>,
     <<",", "u">>, <<" ", "WHERE", " ", "x">>, <<" ", "JOIN", " ", "u">>,
     <<" ", "ON", " ", "x">>, <<"-", "-">>, <<"/", "*">>, <<"*", "/">>,
     <<"delete">>, <<"\n">>}

RECURSIVE Concat(_)
Concat(ss) == IF ss = <<>> THEN <<>> ELSE Head(ss) \o Concat(Tail(ss))

ValidatorInputs == {Concat(fs) : fs \in SeqsUpTo(Fragments, MaxFrags)}

InitValidator ==
    /\ ServerInit
    /\ input \in [q : ValidatorInputs]
    /\ vout = [stage |-> "ready"]

\* validator.validate(query), as preview_query and query_oracle call it
Validate ==
    /\ vout.stage = "ready"
    /\ vout' = [stage |-> "validated", report |-> validate(input.q)]
    /\ UNCHANGED <<pool, now, approvals, tracker_lock, issued, requests, cb, pc, op,
                   arg, loc, result, hist, input>>

ValidatorNext == Validate

SpecValidator == InitValidator /\ [][ValidatorNext]_vars

Validated == vout.stage = "validated"

\* a blocked keyword stands in the text as a whole word, in any letter case
BlockedWords ==
    {"DROP", "TRUNCATE", "DELETE", "INSERT", "UPDATE", "MERGE", "ALTER",
     "CREATE", "EXEC", "EXECUTE", "CALL", "GRANT", "REVOKE", "UNION"}
HasBlockedWord(s) ==
    \E i \in 1..Len(s) :
       /\ UpperSym(s[i]) \in BlockedWords
       /\ (i = 1 \/ ~IsWord(s[i - 1]))
       /\ (i = Len(s) \/ ~IsWord(s[i + 1]))

HasCommentMark(s) ==
    \E i \in 1..(Len(s) - 1) :
       <<s[i], s[i + 1]>> \in {<<"-", "-">>, <<"/", "*">>}

NoPair(s, a, b) == \A i \in 1..(Len(s) - 1) : ~(s[i] = a /\ s[i + 1] = b)
IsLineComment(c, after) ==
    /\ Len(c) >= 2 /\ c[1] = "-" /\ c[2] = "-"
    /\ \A i \in 1..Len(c) : c[i] # "\n"
    /\ (after = <<>> \/ Head(after) = "\n")
IsBlockComment(c) ==
    /\ Len(c) >= 4 /\ c[1] = "/" /\ c[2] = "*"
    /\ c[Len(c) - 1] = "*" /\ c[Len(c)] = "/"
    /\ NoPair(SubSeq(c, 3, Len(c) - 2), "*", "/")
    /\ NoPair(SubSeq(c, 3, Len(c) - 2), "-", "-")
    /\ NoPair(SubSeq(c, 2, Len(c) - 2), "/", "*")
CommentSplits(q) ==
    {ij \in (1..Len(q)) \X (1..Len(q)) :
        /\ ij[1] < ij[2]
        /\ \A k \in (1..(ij[1] - 1)) \cup ((ij[2] + 1)..Len(q)) :
              q[k] \notin {"-", "/"}
        /\ \/ IsLineComment(SubSeq(q, ij[1], ij[2]), SubSeq(q, ij[2] + 1, Len(q)))
           \/ IsBlockComment(SubSeq(q, ij[1], ij[2]))}
WithoutComment(q, ij) == SubSeq(q, 1, ij[1] - 1) \o SubSeq(q, ij[2] + 1, Len(q))

BeginsWithSelectOrWith(s) ==
    \E i \in 1..Len(s) :
       /\ \A k \in 1..(i - 1) : s[k] \in Whitespace
       /\ UpperSym(s[i]) \in {"SELECT", "WITH"}
       /\ (i = Len(s) \/ ~IsWord(s[i + 1]))

\* C9: every query whose comment-stripped text does not begin, after leading
\* whitespace, with the word SELECT or WITH is reported with is_safe = false.
C9_OnlySelectOrWith ==
    Validated /\ ~BeginsWithSelectOrWith(_strip_sql_comments(input.q))
       => ~vout.report.is_safe

\* a query without blocked keyword that has SELECT in it, but not first, and
\* is refused by the rule on the first word
C9_Witness ==
    /\ Validated
    /\ ~BeginsWithSelectOrWith(_strip_sql_comments(input.q))
    /\ Contains(upper(_strip_sql_comments(input.q)), "SELECT")
    /\ ~HasBlockedWord(input.q)
    /\ vout.report = Unsafe(<<"Only SELECT queries are allowed">>)

C10_WitnessJoin ==
    /\ Validated
    /\ input.q = <<"SELECT", " ", "*", " ", "FROM", " ", "t", " ", "JOIN", " ", "u">>
    /\ ~vout.report.is_safe

-----------------------------------------------------------------------------
(* QueryValidator.validate applied to queries that accumulate a score, as  *)
(* test_complexity_scoring.py builds them                                   *)

MaxScoreFrags == 5

ScoreFragments ==
    {<<"SELECT", " ", "x", " ", "FROM", " ", "t">>,
     <<",", "u">>,
     <<" ", "WHERE", " ", "x", " ", "IN", " ", "(", "SELECT", " ", "x", " ",
       "FROM", " ", "t", ")">>,
     <<" ", "OR", " ", "x">>,
     <<" ", "LIKE", " ", "'", "%", "a", "'">>,
     <<" ", "RANK", "(", ")", " ", "OVER", " ", "(", ")">>,
     <<" ", "DISTINCT">>,
     <<" ", "COUNT", " ", "GROUP", " ", "BY">>}

ComplexityInputs == {Concat(fs) : fs \in SeqsUpTo(ScoreFragments, MaxScoreFrags)}

InitComplexity ==
    /\ ServerInit
    /\ input \in [q : ComplexityInputs]
    /\ vout = [stage |-> "ready"]

SpecComplexity == InitComplexity /\ [][ValidatorNext]_vars

\* the query passes the blocking rules: no blocked keyword, SELECT or WITH
\* first, no dangerous pattern, no multi-table query without WHERE and ON
PassesBlockingRules(q) ==
    LET u == upper(_strip_sql_comments(q))
    IN  /\ BlockedFound(u) = 0
        /\ StartsWithSelect(u)
        /\ DangerousFound(u) = 0
        /\ ~CartesianRejected(u, _count_tables(u))

ComplexityMessage(r) ==
    <<"Query complexity score exceeds maximum", r.complexity_score,
      MAX_COMPLEXITY_SCORE>>

\* C11: for every query that passes the blocking rules, the report has
\* is_safe = false exactly when its complexity score is greater than
\* max_complexity, and then it carries the message on the score, the score
\* and the warnings; no report at all has is_safe = true with a score
\* greater than max_complexity.
C11_UnsafeExactlyAboveMaximum ==
    Validated =>
       LET r == vout.report
       IN  /\ r.is_safe => r.complexity_score <= MAX_COMPLEXITY_SCORE
           /\ PassesBlockingRules(input.q) =>
                 /\ ~r.is_safe <=> r.complexity_score > MAX_COMPLEXITY_SCORE
                 /\ ~r.is_safe =>
                       /\ r.error_message = ComplexityMessage(r)
                       /\ r.warnings # <<>>

\* a query that passes the blocking rules and is refused for its score, and
\* one that is accepted with a score above zero and warnings
C11_Witness ==
    /\ Validated
    /\ PassesBlockingRules(input.q)
    /\ ~vout.report.is_safe
    /\ vout.report.complexity_score > MAX_COMPLEXITY_SCORE
C11_WitnessSafe ==
    /\ Validated
    /\ PassesBlockingRules(input.q)
    /\ vout.report.is_safe
    /\ vout.report.complexity_score > 30
    /\ vout.report.warnings # <<>>

-----------------------------------------------------------------------------
(* validate(q) against validate(_strip_sql_comments(q)), on queries with    *)
(* comment marks and pieces of comment marks                                *)

MaxStripFrags == 5

StripFragments ==
    {<<"SELECT", " ", "*", " ", "FROM", " ", "t", " ">>, <<"-">>, <<"/">>,
     <<"*">>, <<"/", "*", "*", "/">>, <<"delete">>, <<"\n">>}

StripInputs == {Concat(fs) : fs \in SeqsUpTo(StripFragments, MaxStripFrags)}

InitStrip ==
    /\ ServerInit
    /\ input \in [q : StripInputs]
    /\ vout = [stage |-> "ready"]

\* validator.validate(validator._strip_sql_comments(query))
ValidateStripped ==
    /\ vout.stage = "validated"
    /\ vout' = [stage |-> "compared", report |-> vout.report,
                stripped |-> _strip_sql_comments(input.q),
                report_stripped |-> validate(_strip_sql_comments(input.q))]
    /\ UNCHANGED <<pool, now, approvals, tracker_lock, issued, requests, cb, pc, op,
                   arg, loc, result, hist, input>>

StripNext == Validate \/ ValidateStripped

SpecStrip == InitStrip /\ [][StripNext]_vars

Compared == vout.stage = "compared"

\* C12 as stated: for every query q, validate(_strip_sql_comments(q)) is the
\* same report as validate(q): same is_safe, error, warnings and score.
C12_StripThenValidateSame ==
    Compared => vout.report_stripped = vout.report

\* C12, the reason given: a second pass of comment stripping removes nothing
\* from the text that one pass has left.
C12_StripIdempotent ==
    Compared => _strip_sql_comments(vout.stripped) = vout.stripped

\* a query refused for a blocked keyword whose comment-stripped text is
\* reported safe: the first stripping has put two dashes side by side
C12_Diverges ==
    /\ Compared
    /\ vout.report = Unsafe(<<"Blocked operation detected", "DELETE">>)
    /\ vout.report_stripped.is_safe
    /\ Contains(vout.stripped, "delete")

-----------------------------------------------------------------------------
(* QueryValidator.wrap_with_row_limit, applied once and again, as           *)
(* test_rownum_bypass_fix applies it                                        *)

MaxWrapFrags == 4

WrapFragments ==
    {<<"SELECT", " ", "*", " ", "FROM", " ", "t">>,
     <<" ", "WHERE", " ", "x">>,
     <<" ", "ORDER", " ", "BY", " ", "x">>,
     <<" ", "where", " ", "rownum">>,
     <<" ", "<", "=">>,
     <<" ", ">">>,
     <<" ", "5">>,
     <<" ", "99999">>,
     <<" ", "x">>,
     <<" ">>}

WrapInputs == {Concat(fs) : fs \in SeqsUpTo(WrapFragments, MaxWrapFrags)}

InitWrap ==
    /\ ServerInit
    /\ input \in [q : WrapInputs]
    /\ vout = [stage |-> "ready"]

\* safe_query = validator.wrap_with_row_limit(query)
Wrap ==
    /\ vout.stage = "ready"
    /\ vout' = [stage |-> "wrapped", wrapped |-> wrap_with_row_limit(input.q)]
    /\ UNCHANGED <<pool, now, approvals, tracker_lock, issued, requests, cb, pc, op,
                   arg, loc, result, hist, input>>

\* validator.wrap_with_row_limit(safe_query)
WrapAgain ==
    /\ vout.stage = "wrapped"
    /\ vout' = [stage |-> "wrapped twice", wrapped |-> vout.wrapped,
                again |-> wrap_with_row_limit(vout.wrapped)]
    /\ UNCHANGED <<pool, now, approvals, tracker_lock, issued, requests, cb, pc, op,
                   arg, loc, result, hist, input>>

WrapNext == Wrap \/ WrapAgain

SpecWrap == InitWrap /\ [][WrapNext]_vars

WrappedOnce == vout.stage \in {"wrapped", "wrapped twice"}
WrappedTwice == vout.stage = "wrapped twice"

\* C13 as stated: for every query q, wrapping the wrapped query gives the
\* wrapped query again, whenever the wrapped query contains ROWNUM.
C13_WrapIdempotent ==
    WrappedTwice /\ Contains(upper(vout.wrapped), "ROWNUM")
       => vout.again = vout.wrapped

\* the blank query: wrapped once it begins with a blank, wrapped twice not
C13_Diverges ==
    /\ WrappedTwice
    /\ input.q = <<" ">>
    /\ vout.wrapped = <<" ", "WHERE", " ", "ROWNUM", " ", "<", "=", " ", max_rows>>
    /\ vout.again = Tail(vout.wrapped)


\* the text holds ROWNUM, in any letter case and not as the end of a longer
\* word, then a comparison made of <, > and =, then a number
HasRownumNumberPredicate(s) ==
    \E i \in 1..Len(s), j \in 1..Len(s), k \in 1..Len(s) :
       /\ i < j /\ j <= k /\ k < Len(s)
       /\ UpperSym(s[i]) = "ROWNUM" /\ (i = 1 \/ ~IsWord(s[i - 1]))
       /\ \A m \in (i + 1)..(j - 1) : s[m] \in Whitespace
       /\ \A m \in j..k : s[m] \in {"<", ">", "="}
       /\ \E n \in (k + 1)..Len(s) :
             /\ s[n] \in Digits
             /\ \A m \in (k + 1)..(n - 1) : s[m] \in Whitespace

RowLimit == <<"ROWNUM", " ", "<", "=", " ", max_rows>>

\* the same text up to the layout of its whitespace
SameText(a, b) == join(split(a)) = join(split(b))

\* C14 as stated: wrap_with_row_limit returns the trimmed query unchanged
\* when it contains a ROWNUM <op> <number> predicate; otherwise, when the
\* query contains ORDER BY, it returns SELECT * FROM ( query ) WHERE ROWNUM <=
\* max_rows, else it appends AND ROWNUM <= max_rows when a WHERE exists and
\* WHERE ROWNUM <= max_rows when none exists.
C14_WrapCases ==
    WrappedOnce =>
       LET q == strip(input.q)
           u == upper(q)
           w == vout.wrapped
       IN  IF HasRownumNumberPredicate(q) THEN w = q
           ELSE IF ContainsPair(u, "ORDER", "BY")
           THEN SameText(w, <<"SELECT", " ", "*", " ", "FROM", " ", "(", " ">>
                            \o q \o <<" ", ")", " ", "WHERE", " ">> \o RowLimit)
           ELSE IF Contains(u, "WHERE")
           THEN w = q \o <<" ", "AND", " ">> \o RowLimit
           ELSE w = q \o <<" ", "WHERE", " ">> \o RowLimit

\* a query with WHERE ROWNUM <= and no number after it is returned unchanged
C14_Diverges ==
    /\ WrappedOnce
    /\ input.q = <<"SELECT", " ", "*", " ", "FROM", " ", "t", " ", "where",
                   " ", "rownum", " ", "<", "=", " ", "x">>
    /\ ~HasRownumNumberPredicate(input.q)
    /\ vout.wrapped = input.q

-----------------------------------------------------------------------------
(* preview_query and query_oracle by one client, with queries that hold     *)
(* ROWNUM text, bounds and comments of their own                            *)

RowCapQueries ==
    {<<"SELECT", " ", "*", " ", "FROM", " ", "t">>,
     <<"SELECT", " ", "*", " ", "FROM", " ", "t", " ", "WHERE", " ", "ROWNUM",
       " ", "<", "=", " ", "99999">>,
     <<"SELECT", " ", "*", " ", "FROM", " ", "t", " ", "WHERE", " ", "ROWNUM",
       " ", ">", " ", "5">>,
     <<"SELECT", " ", "*", " ", "FROM", " ", "t", " ", "-", "-", "x">>}

RowCapNext ==
    \/ Tick
    \/ \E q \in RowCapQueries : StartPreview(Client, q)
    \/ \E q \in RowCapQueries, tok \in Presentable : StartQuery(Client, q, tok)
    \/ GenAcquire(Client)
    \/ GenBody(Client)
    \/ PreviewRespond(Client)
    \/ VerifyAcquire(Client)
    \/ VerifyCheck(Client)
    \/ VerifyConsume(Client)
    \/ QueryAdmit(Client)
    \/ BreakerEnter(Client)
    \/ \E outcome \in Outcomes : PoolExecute(Client, outcome)
    \/ BreakerUpdate(Client)
    \/ Finish(Client)

SpecRowCap == Init /\ [][RowCapNext]_vars

\* the value of a number of the text
NumberValue(d) ==
    CASE d = "1" -> 1 [] d = "5" -> 5 [] d = "100" -> 100
      [] d = "10000" -> 10000 [] d = "99999" -> 99999

\* the statement holds, outside its -- comments, ROWNUM < n or ROWNUM <= n
\* with n at most max_rows
HasRowCap(s) ==
    LET e == StripLineComments(s)
    IN  \E i \in 1..Len(e), n \in 1..Len(e) :
           /\ UpperSym(e[i]) = "ROWNUM" /\ i < n
           /\ e[n] \in Digits /\ NumberValue(e[n]) <= NumberValue(max_rows)
           /\ \E j \in (i + 1)..(n - 1) :
                 /\ e[j] = "<"
                 /\ \A m \in (i + 1)..(j - 1) : e[m] \in Whitespace
                 /\ \A m \in (j + 1)..(n - 1) : e[m] \in Whitespace \cup {"="}

\* C15 as stated: every query string that query_oracle passes to the database
\* carries, as part of the executed statement and not inside a comment, a
\* ROWNUM upper-bound predicate whose bound is at most max_rows, whatever
\* ROWNUM text, comments or bounds the caller's query contained.
C15_ExecutedQueryIsCapped ==
    \A t \in Tasks : pc[t] = "cb_call" => HasRowCap(loc[t].safe_query)

\* a query accepted with its own bound of 99999 is passed on unchanged
C15_Diverges ==
    /\ pc[Client] = "cb_call"
    /\ loc[Client].safe_query = arg[Client].query
    /\ Contains(loc[Client].safe_query, "99999")
    /\ ~Contains(loc[Client].safe_query, max_rows)
\* a query that ends in a comment gets its bound inside the comment
C15_DivergesComment ==
    /\ pc[Client] = "cb_call"
    /\ loc[Client].safe_query =
          arg[Client].query \o <<" ", "WHERE", " ", "ROWNUM", " ", "<", "=", " ", max_rows>>
    /\ HasCommentMark(arg[Client].query)
\* a query without ROWNUM and without comment is passed on with the bound
C15_Capped ==
    /\ pc[Client] = "cb_call"
    /\ arg[Client].query = <<"SELECT", " ", "*", " ", "FROM", " ", "t">>
    /\ HasRowCap(loc[Client].safe_query)

-----------------------------------------------------------------------------
(* validate_identifier and the describe_table / list_tables handlers.  An   *)
(* identifier is a sequence of characters.                                  *)

MaxIdLen == 4
\* max_length of validate_identifier, scaled down
max_length == 3

Letters == {"A", "t"}
IdentifierChars == Letters \cup {"1", "_", "$", "#"}
IdChars == IdentifierChars \cup {" ", "'", ";", "\n"}

\* re.match(r'^[A-Za-z][A-Za-z0-9_$#]*$', identifier): $ matches at the end
\* of the string and also just before a newline that ends the string
MatchIdentifier(identifier) ==
    LET n == IF identifier[Len(identifier)] = "\n"
             THEN Len(identifier) - 1 ELSE Len(identifier)
    IN  /\ n >= 1
        /\ identifier[1] \in Letters
        /\ \A i \in 2..n : identifier[i] \in IdentifierChars

validate_identifier(identifier) ==
    IF identifier = <<>> THEN FALSE
    ELSE IF Len(identifier) > max_length THEN FALSE
    ELSE MatchIdentifier(identifier)

\* what db.query(sql) can do: return rows, raise RuntimeError (a failure
\* result, a dead connection), raise another exception
QueryOutcomes == {"rows", "RuntimeError", "Exception"}

\* circuit_breaker.call(func) as one step, when func does what outcome says
BreakerCall(b, outcome, t) ==
    IF Rejects(b, t)
    THEN [cb |-> b, invoked |-> 0, raised |-> "RuntimeError",
          events |-> <<"rejected">>]
    ELSE LET entered == IF b.state = "OPEN"
                        THEN [b EXCEPT !.state = "HALF_OPEN", !.success_count = 0]
                        ELSE b
         IN  [cb |-> IF Raises(outcome) THEN OnFailure(entered, t)
                     ELSE OnSuccess(entered),
              invoked |-> 1,
              raised |-> IF Raises(outcome) THEN outcome ELSE "none",
              events |-> (IF b.state = "OPEN" THEN <<"half-open">> ELSE <<>>)
                         \o <<IF Raises(outcome) THEN "failure" ELSE "success">>]

IdentifierInputs == SeqsUpTo(IdChars, MaxIdLen)

InitIdentifier ==
    /\ ServerInit
    /\ input \in [name : IdentifierInputs]
    /\ vout = [stage |-> "ready"]

\* the handler's [AUDIT] lines after its operation line, by what the call of
\* circuit_breaker.call raised: except RuntimeError logs CIRCUIT_BREAKER_OPEN,
\* any other exception is logged by the outer handler without an audit line
AuditOf(raised) ==
    IF raised = "RuntimeError" THEN <<"CIRCUIT_BREAKER_OPEN">> ELSE <<>>

HandlerDone(tool, response, audit, catalog, b, calls, events) ==
    /\ vout' = [stage |-> "done", tool |-> tool, response |-> response,
                audit |-> audit, catalog |-> catalog, events |-> events]
    /\ cb' = b
    /\ hist' = [hist EXCEPT !.poolCalls = @ + calls, !.breaker = @ \o events]
    /\ UNCHANGED <<pool, now, approvals, tracker_lock, issued, requests, pc, op,
                   arg, loc, result, input>>

\* call_tool, describe_table branch: the columns query, then the primary-key
\* query, each through the circuit breaker
DescribeTable(o1, o2) ==
    /\ vout.stage = "ready"
    /\ LET table_name == input.name
           safe_table_name == upper(table_name)
           columns == [from |-> "user_tab_columns", name |-> safe_table_name]
           pk == [from |-> "user_cons_columns", name |-> safe_table_name]
           c1 == BreakerCall(cb, o1, now)
           c2 == BreakerCall(c1.cb, o2, now)
       IN  IF table_name = <<>>
           THEN HandlerDone("describe_table", "Error: 'table_name' parameter is required",
                            <<>>, <<>>, cb, 0, <<>>)
           ELSE IF ~validate_identifier(table_name)
           THEN HandlerDone("describe_table", "Error: Invalid table name",
                            <<"BLOCKED">>, <<>>, cb, 0, <<>>)
           ELSE IF c1.raised # "none"
           THEN HandlerDone("describe_table", "Error", AuditOf(c1.raised),
                            <<columns>>, c1.cb, c1.invoked, c1.events)
           ELSE IF c2.raised = "Exception"
           THEN HandlerDone("describe_table", "Error", <<>>, <<columns, pk>>, c2.cb,
                            c1.invoked + c2.invoked, c1.events \o c2.events)
           ELSE HandlerDone("describe_table", "table structure",
                            AuditOf(c2.raised) \o <<"SUCCESS">>, <<columns, pk>>,
                            c2.cb, c1.invoked + c2.invoked, c1.events \o c2.events)

\* call_tool, list_tables branch
ListTables(o) ==
    /\ vout.stage = "ready"
    /\ LET schema == input.name
           query == IF schema # <<>>
                    THEN [from |-> "all_tables", name |-> upper(schema)]
                    ELSE [from |-> "user_tables", name |-> <<>>]
           c == BreakerCall(cb, o, now)
       IN  IF schema # <<>> /\ ~validate_identifier(schema)
           THEN HandlerDone("list_tables", "Error: Invalid schema name",
                            <<"BLOCKED">>, <<>>, cb, 0, <<>>)
           ELSE HandlerDone("list_tables",
                            IF c.raised # "none" THEN "Error" ELSE "tables",
                            IF c.raised # "none" THEN AuditOf(c.raised)
                            ELSE <<"SUCCESS">>,
                            <<query>>, c.cb, c.invoked, c.events)

IdentifierNext ==
    \/ \E o1 \in QueryOutcomes, o2 \in QueryOutcomes : DescribeTable(o1, o2)
    \/ \E o \in QueryOutcomes : ListTables(o)

SpecIdentifier == InitIdentifier /\ [][IdentifierNext]_vars

HandlerReturned == vout.stage = "done"

\* the input is empty, too long, does not start with a letter, or holds a
\* character outside [A-Za-z0-9_$#]
MustBeRejected(s) ==
    \/ s = <<>>
    \/ Len(s) > max_length
    \/ s # <<>> /\ s[1] \notin Letters
    \/ \E i \in 1..Len(s) : s[i] \notin IdentifierChars

\* C16 as stated: validate_identifier returns False for every input that is
\* empty, longer than max_length, does not start with a letter or holds a
\* character outside [A-Za-z0-9_$#], newlines included, and describe_table
\* and list_tables issue no catalog query for an input it rejects (a
\* list_tables call without schema asks for no validation).
C16_IdentifierRejected ==
    HandlerReturned /\ MustBeRejected(input.name) =>
       /\ ~validate_identifier(input.name)
       /\ (vout.tool = "list_tables" /\ input.name = <<>>) \/ vout.catalog = <<>>

\* a table name that ends in a newline is accepted and put into both queries
C16_Diverges ==
    /\ HandlerReturned
    /\ input.name = <<"t", "\n">>
    /\ validate_identifier(input.name)
    /\ vout.tool = "describe_table"
    /\ Len(vout.catalog) = 2
    /\ vout.catalog[1].name = <<"T", "\n">>

-----------------------------------------------------------------------------
(* Direct callers of the circuit breaker, as in test_circuit_breaker.py:    *)
(* one call at a time, of a function that returns or raises                 *)

MaxBreakerEvents == 6

BreakerCaller == 1

\* await breaker.call(func)
StartCall(t) ==
    /\ pc[t] = "idle"
    /\ Len(hist.breaker) < MaxBreakerEvents
    /\ pc' = [pc EXCEPT ![t] = "cb_enter"]
    /\ op' = [op EXCEPT ![t] = "call"]
    /\ UNCHANGED <<pool, now, approvals, tracker_lock, issued, requests, cb, arg,
                   loc, result, hist, input, vout>>

BreakerNext ==
    \/ Tick
    \/ StartCall(BreakerCaller)
    \/ BreakerEnter(BreakerCaller)
    \/ \E outcome \in Outcomes : PoolExecute(BreakerCaller, outcome)
    \/ BreakerUpdate(BreakerCaller)
    \/ Finish(BreakerCaller)

SpecBreaker == Init /\ [][BreakerNext]_vars

\* the calls whose function was run, oldest first: "success" or "failure"
RECURSIVE Completed(_)
Completed(log) ==
    IF log = <<>> THEN <<>>
    ELSE IF Head(log) \in {"success", "failure"}
    THEN <<Head(log)>> \o Completed(Tail(log))
    ELSE Completed(Tail(log))

\* how many of the last events are e
RECURSIVE Trailing(_, _)
Trailing(log, e) ==
    IF log # <<>> /\ log[Len(log)] = e
    THEN 1 + Trailing(SubSeq(log, 1, Len(log) - 1), e) ELSE 0

\* a call leaves the first locked section; a call ends after its function
Enters(t) == pc[t] = "cb_enter" /\ pc'[t] # "cb_enter"
Ends(t) == pc[t] = "cb_update" /\ pc'[t] = "done"
Failed(t) == loc[t].outcome \in {"RuntimeError", "Exception"}

\* C17: while the breaker is CLOSED, failure_count is the number of failed
\* calls in a row since the last success and is below failure_threshold; a
\* success in CLOSED sets it to 0 and leaves the breaker CLOSED, a failure
\* adds one, and the breaker goes to OPEN, with last_failure_time set to the
\* time of the failure, exactly when the count reaches failure_threshold, so
\* only after failure_threshold failures in a row.
C17_ClosedCountsConsecutiveFailures ==
    /\ [](cb.state = "CLOSED" =>
             /\ cb.failure_count = Trailing(Completed(hist.breaker), "failure")
             /\ cb.failure_count < failure_threshold)
    /\ [][\A t \in Tasks :
            Ends(t) /\ cb.state = "CLOSED" =>
               IF Failed(t)
               THEN /\ cb'.failure_count = cb.failure_count + 1
                    /\ cb'.state = "OPEN" <=> cb'.failure_count >= failure_threshold
                    /\ cb'.state \in {"CLOSED", "OPEN"}
                    /\ cb'.state = "OPEN" =>
                          /\ cb'.last_failure_time = now
                          /\ Trailing(Completed(hist'.breaker), "failure")
                                >= failure_threshold
               ELSE cb'.failure_count = 0 /\ cb'.state = "CLOSED"]_vars

\* failure, success, failure: still CLOSED with one failure counted; one
\* more failure opens the breaker
C17_Witness ==
    /\ hist.breaker = <<"failure", "success", "failure", "failure">>
    /\ cb.state = "OPEN"
    /\ cb.failure_count = failure_threshold
    /\ cb.last_failure_time = now
C17_WitnessClosed ==
    /\ hist.breaker = <<"failure", "success", "failure">>
    /\ cb.state = "CLOSED"
    /\ cb.failure_count = 1

\* C18: a call made while the breaker is OPEN and less than recovery_timeout
\* has passed since last_failure_time is rejected with the 'Circuit breaker
\* is OPEN' error that carries the remaining seconds; the function is not
\* run, and state, failure_count, success_count and last_failure_time stay
\* as they are.
C18_OpenRejects ==
    [][\A t \in Tasks :
         Enters(t) /\ cb.state = "OPEN"
                   /\ now - cb.last_failure_time < recovery_timeout =>
            /\ pc'[t] = "done"
            /\ result'[t].text = "Circuit breaker is OPEN"
            /\ result'[t].retry_in = recovery_timeout - (now - cb.last_failure_time)
            /\ result'[t].retry_in > 0
            /\ hist'.poolCalls = hist.poolCalls
            /\ cb' = cb]_vars

\* a call rejected right after the breaker opened
C18_Witness ==
    /\ hist.breaker = <<"failure", "failure", "rejected">>
    /\ pc[BreakerCaller] = "done"
    /\ result[BreakerCaller].text = "Circuit breaker is OPEN"
    /\ result[BreakerCaller].retry_in = recovery_timeout
    /\ cb.state = "OPEN"
    /\ hist.poolCalls = 2

\* C19: a call made while the breaker is OPEN and recovery_timeout or more
\* has passed since last_failure_time sets it to HALF_OPEN with
\* success_count = 0 and runs the function; when a call fails in HALF_OPEN
\* the breaker is OPEN again with last_failure_time set to the time of that
\* failure, and a call made before recovery_timeout has passed anew is
\* rejected.
C19_TrialAfterTimeout ==
    /\ [][\A t \in Tasks :
            Enters(t) /\ cb.state = "OPEN"
                      /\ now - cb.last_failure_time >= recovery_timeout =>
               /\ pc'[t] = "cb_call"
               /\ cb'.state = "HALF_OPEN"
               /\ cb'.success_count = 0]_vars
    /\ [][\A t \in Tasks :
            Ends(t) /\ cb.state = "HALF_OPEN" /\ Failed(t) =>
               /\ cb'.state = "OPEN"
               /\ cb'.last_failure_time = now]_vars
    /\ [][\A t \in Tasks :
            Enters(t) /\ hist.breaker # <<>>
                      /\ hist.breaker[Len(hist.breaker)] = "failure"
                      /\ cb.state = "OPEN"
                      /\ now - cb.last_failure_time < recovery_timeout =>
               pc'[t] = "done" /\ cb' = cb]_vars

\* the trial call failed and the next call, made at once, was rejected; a
\* later call is let through again
C19_Witness ==
    /\ hist.breaker = <<"failure", "failure", "half-open", "failure", "rejected">>
    /\ cb.state = "OPEN"
    /\ cb.last_failure_time = now
    /\ cb.last_failure_time > 0
C19_WitnessAnew ==
    /\ hist.breaker =
          <<"failure", "failure", "half-open", "failure", "rejected", "half-open">>
    /\ cb.state = "HALF_OPEN"
    /\ cb.success_count = 0
    /\ pc[BreakerCaller] = "cb_call"

\* the events since the breaker last went to HALF_OPEN
RECURSIVE SinceHalfOpen(_)
SinceHalfOpen(log) ==
    IF log = <<>> \/ log[Len(log)] = "half-open" THEN <<>>
    ELSE Append(SinceHalfOpen(SubSeq(log, 1, Len(log) - 1)), log[Len(log)])
WentHalfOpen(log) == \E i \in 1..Len(log) : log[i] = "half-open"
OnlySuccesses(log) == \A i \in 1..Len(log) : log[i] = "success"

\* C20: when the calls since the breaker went to HALF_OPEN are successes
\* only, the breaker is still HALF_OPEN while they are fewer than
\* success_threshold, and it is CLOSED with failure_count = 0 and
\* success_count = 0 once they are success_threshold.
C20_ClosedAfterSuccesses ==
    LET trial == SinceHalfOpen(hist.breaker)
    IN  WentHalfOpen(hist.breaker) /\ OnlySuccesses(trial) =>
           /\ Len(trial) < success_threshold =>
                 cb.state = "HALF_OPEN" /\ cb.success_count = Len(trial)
           /\ Len(trial) >= success_threshold =>
                 /\ cb.state = "CLOSED"
                 /\ cb.failure_count = 0
                 /\ cb.success_count = 0

\* closed again after two successes; still HALF_OPEN after one
C20_Witness ==
    /\ hist.breaker = <<"failure", "failure", "half-open", "success", "success">>
    /\ cb = [state |-> "CLOSED", failure_count |-> 0, success_count |-> 0,
             last_failure_time |-> 0, lock |-> NoTask]
C20_WitnessHalfOpen ==
    /\ hist.breaker = <<"failure", "failure", "half-open", "success">>
    /\ cb.state = "HALF_OPEN"
    /\ cb.success_count = 1

-----------------------------------------------------------------------------
(* An outage: every db.execute of query_oracle fails downstream, by a       *)
(* failure result of the pool or by an exception                            *)

\* pool.execute returns {'success': False, ...} or conn.start() raises
OutageOutcomes == Outcomes \ {"rows"}
OutageQueries == {<<"SELECT", " ", "t">>}

OutageNext ==
    \/ Tick
    \/ \E q \in OutageQueries : StartPreview(Client, q)
    \/ \E q \in OutageQueries, tok \in Presentable : StartQuery(Client, q, tok)
    \/ GenAcquire(Client)
    \/ GenBody(Client)
    \/ PreviewRespond(Client)
    \/ VerifyAcquire(Client)
    \/ VerifyCheck(Client)
    \/ VerifyConsume(Client)
    \/ QueryAdmit(Client)
    \/ BreakerEnter(Client)
    \/ \E outcome \in OutageOutcomes : PoolExecute(Client, outcome)
    \/ BreakerUpdate(Client)
    \/ Finish(Client)

SpecOutage == Init /\ [][OutageNext]_vars

\* C21 as stated: failure_threshold query_oracle executions in a row that
\* fail downstream (the child died, a transport error, or success=false)
\* drive the breaker to OPEN, and the next query_oracle call is rejected as
\* circuit-open without contacting the pool. During an outage every
\* execution fails downstream, so once failure_threshold executions have
\* ended the breaker is OPEN, or HALF_OPEN for a trial call, never CLOSED.
C21_FailuresOpenBreaker ==
    Len(Completed(hist.breaker)) >= failure_threshold => cb.state # "CLOSED"

\* failure_threshold executions ended with success=false: the breaker counted
\* each as a success and is CLOSED with no failure counted
C21_Diverges ==
    /\ hist.poolCalls = failure_threshold
    /\ hist.breaker = <<"success", "success">>
    /\ pc[Client] = "done"
    /\ loc[Client].outcome = "failure result"
    /\ result[Client].text = "Error executing query"
    /\ cb.state = "CLOSED"
    /\ cb.failure_count = 0

\* failures that db.execute raises do open the breaker
C21_OpensOnRaise ==
    /\ hist.breaker = <<"failure", "failure">>
    /\ loc[Client].outcome \in {"RuntimeError", "Exception"}
    /\ cb.state = "OPEN"

-----------------------------------------------------------------------------
(* describe_table and list_tables called again and again for one table,     *)
(* while db.query returns rows or raises                                    *)

InitReporting ==
    /\ ServerInit
    /\ input = [name |-> <<"t">>]
    /\ vout = [stage |-> "ready"]

\* the client reads the response and calls a tool again
CallAgain ==
    /\ vout.stage = "done"
    /\ Len(hist.breaker) < MaxBreakerEvents
    /\ vout' = [stage |-> "ready"]
    /\ UNCHANGED <<pool, now, approvals, tracker_lock, issued, requests, cb, pc, op,
                   arg, loc, result, hist, input>>

ReportingNext ==
    \/ Tick
    \/ \E o1 \in QueryOutcomes, o2 \in QueryOutcomes : DescribeTable(o1, o2)
    \/ \E o \in QueryOutcomes : ListTables(o)
    \/ CallAgain

SpecReporting == InitReporting /\ [][ReportingNext]_vars

AuditLogged(tag) == \E i \in 1..Len(vout.audit) : vout.audit[i] = tag
BreakerRejected == \E i \in 1..Len(vout.events) : vout.events[i] = "rejected"

\* C22 as stated: in every tool operation that goes through the breaker an
\* outcome is classified and reported as a circuit-open rejection only when
\* the breaker rejected the call while OPEN; a downstream failure of the
\* guarded call is never audit-logged as a circuit-open rejection.
C22_OpenReportedOnlyWhenRejected ==
    HandlerReturned /\ AuditLogged("CIRCUIT_BREAKER_OPEN") => BreakerRejected

\* the first describe_table call: db.query raised RuntimeError('Query failed')
\* while the breaker was CLOSED, and the handler logged CIRCUIT_BREAKER_OPEN
C22_Diverges ==
    /\ HandlerReturned
    /\ vout.tool = "describe_table"
    /\ hist.breaker = <<"failure">>
    /\ vout.events = <<"failure">>
    /\ hist.poolCalls = 1
    /\ cb.state = "CLOSED"
    /\ AuditLogged("CIRCUIT_BREAKER_OPEN")

\* the primary-key query failed downstream: logged as circuit-open, and the
\* table is reported as having no primary key
C22_DivergesPrimaryKey ==
    /\ HandlerReturned
    /\ vout.events = <<"success", "failure">>
    /\ vout.audit = <<"CIRCUIT_BREAKER_OPEN", "SUCCESS">>
    /\ vout.response = "table structure"

\* a call that the OPEN breaker rejected is logged the same way
C22_Rejected ==
    /\ HandlerReturned
    /\ vout.events = <<"rejected">>
    /\ vout.audit = <<"CIRCUIT_BREAKER_OPEN">>
    /\ cb.state = "OPEN"

-----------------------------------------------------------------------------
(* Direct callers of the rate limiter: is_allowed() at any time, any number *)
(* of times                                                                 *)

MaxRateTime == 6
MaxAdmitted == 5

InitRate ==
    /\ ServerInit
    /\ input = [stage |-> "none"]
    /\ vout = [stage |-> "ready", admitted |-> <<>>]

RateTick ==
    /\ now < MaxRateTime
    /\ now' = now + 1
    /\ UNCHANGED <<pool, approvals, tracker_lock, issued, requests, cb, pc, op,
                   arg, loc, result, hist, input, vout>>

\* the outcome of one call, with the window it found and the time it read
RateCallDone(limit) ==
    /\ requests' = limit.requests
    /\ vout' = [stage |-> "done", allowed |-> limit.allowed, at |-> now,
                before |-> requests,
                admitted |-> IF limit.allowed THEN Append(vout.admitted, now)
                             ELSE vout.admitted]

\* allowed, error = rate_limiter.is_allowed()
IsAllowedCall ==
    /\ Len(vout.admitted) < MaxAdmitted
    /\ RateCallDone(is_allowed(requests, now))
    /\ UNCHANGED <<pool, now, approvals, tracker_lock, issued, cb, pc, op, arg,
                   loc, result, hist, input>>

RateNext == RateTick \/ IsAllowedCall

SpecRate == InitRate /\ [][RateNext]_vars

\* the timestamps of a window that are not older than t - time_window
NotOlder(reqs, t) == SelectSeq(reqs, LAMBDA ts : ts >= t - time_window)
\* the calls admitted in the span of time_window seconds that begins at a
AdmittedIn(a) ==
    {i \in 1..Len(vout.admitted) :
        a <= vout.admitted[i] /\ vout.admitted[i] <= a + time_window}

\* C23: after any sequence of is_allowed calls the window holds at most
\* max_requests timestamps and at most max_requests calls were admitted
\* within any span of time_window seconds; a call is denied exactly when,
\* after the timestamps older than now - time_window are evicted, the window
\* already holds max_requests entries; a denied call adds no timestamp, an
\* admitted call adds the time it read.
C23_WindowBounded ==
    /\ Len(requests) <= max_requests
    /\ \A a \in 0..MaxRateTime : Cardinality(AdmittedIn(a)) <= max_requests
    /\ vout.stage = "done" =>
          LET kept == NotOlder(vout.before, vout.at)
          IN  /\ ~vout.allowed <=> Len(kept) = max_requests
              /\ ~vout.allowed => requests = kept
              /\ vout.allowed => requests = Append(kept, vout.at)

\* denied: the window is full with a timestamp exactly time_window old
C23_Witness ==
    /\ vout.stage = "done"
    /\ ~vout.allowed
    /\ vout.at = now
    /\ Len(requests) = max_requests
    /\ requests[1] = now - time_window
\* admitted after the full window's oldest timestamp was evicted
C23_WitnessEvicted ==
    /\ vout.stage = "done"
    /\ vout.allowed
    /\ Len(vout.before) = max_requests
    /\ vout.before[1] < vout.at - time_window
    /\ Len(vout.admitted) >= 2

-----------------------------------------------------------------------------
(* The order of the steps of query_oracle *)

\* query_oracle goes on from the return of verify_approval
Decides(t) == pc[t] = "v_return" /\ op[t] = "query_oracle" /\ pc'[t] # "v_return"
ApprovalErrors == {MsgMissing, MsgInvalid, MsgMismatch}

\* C24: query_oracle verifies and consumes the approval token first and
\* consults the rate limiter only afterwards: a call denied for approval
\* (missing, unknown, expired or mismatching token) returns the approval
\* error, adds no timestamp to the rate window and reaches neither validator,
\* breaker nor pool; the rate window changes only in a call whose token has
\* been accepted and consumed.
C24_ApprovalBeforeRateLimit ==
    /\ [][\A t \in Tasks :
            Decides(t) /\ ~loc[t].ret[1] =>
               /\ pc'[t] = "done"
               /\ result'[t] = [kind |-> "text", text |-> loc[t].ret[2]]
               /\ loc[t].ret[2] \in ApprovalErrors
               /\ requests' = requests
               /\ loc' = loc /\ cb' = cb /\ hist' = hist]_vars
    /\ [][requests' # requests =>
            \E t \in Tasks :
               /\ Decides(t) /\ loc[t].ret[1]
               /\ hist.call[t].verified
               /\ hist.accepts[arg[t].token] = 1
               /\ arg[t].token \notin DOMAIN approvals]_vars

\* a call refused for a token that was used before, after an earlier call
\* was admitted: the window holds the earlier call's timestamp only
C24_Witness ==
    /\ op[Client] = "query_oracle" /\ pc[Client] = "done"
    /\ ~hist.call[Client].verified
    /\ result[Client] = [kind |-> "text", text |-> MsgInvalid]
    /\ arg[Client].token \in Consumed
    /\ Len(requests) = 1 /\ requests[1] < now
    /\ loc[Client].validation = NoValidation

RateLimited(t) ==
    /\ op[t] = "query_oracle" /\ pc[t] = "done"
    /\ result[t] = [kind |-> "text", text |-> "Rate limit exceeded"]

\* C25 as stated: query_oracle performs its steps in the order rate-limit
\* admit, approval verify and consume, validation, row-limit wrap, breaker
\* gate, pool: the rate limiter is consulted before the approval token is
\* verified, so a call refused by the rate limiter has not consumed its
\* approval token.
C25_RateLimitBeforeApproval ==
    \A t \in Tasks :
       RateLimited(t) =>
          /\ ~hist.call[t].verified
          /\ arg[t].token \in 1..issued => hist.accepts[arg[t].token] = 0

\* the rival's call was admitted; the client's call, made with a fresh token
\* within the same window, is refused by the rate limiter after its token
\* has been accepted and deleted
C25_Diverges ==
    /\ RateLimited(Client)
    /\ hist.call[Client].verified
    /\ arg[Client].token \in 1..issued
    /\ hist.accepts[arg[Client].token] = 1
    /\ arg[Client].token \notin DOMAIN approvals
    /\ hist.issuedAt[arg[Client].token] = now
    /\ Len(requests) = max_requests

\* a step of a preview_query call
PreviewStep(t) == pc'[t] # pc[t] /\ "preview_query" \in {op[t], op'[t]}
OutsidePreview == {"v_acquire", "v_check", "v_consume", "v_return",
                   "cb_enter", "cb_call", "cb_update"}

C26_WitnessSweep ==
    /\ op[Client] = "preview_query" /\ pc[Client] = "g_return"
    /\ issued = 2
    /\ DOMAIN approvals = {2}
    /\ hist.accepts[1] = 0

-----------------------------------------------------------------------------
(* oracle_jdbc.py: ConnectionPool and Connection, called from threads, with *)
(* the child processes as environment                                       *)

max_wait_time == 1

PoolFrame ==
    UNCHANGED <<now, approvals, tracker_lock, issued, requests, cb, arg, hist,
                input, vout>>

\* with self.pool_lock: the lock can be taken when nobody holds it
PoolLockFreeAlways(l) == TRUE
PoolLockFree(l) == l = NoTask

\* Connection.is_alive: process is not None and process.poll() is None
is_alive(conn) == conn.process = "running"

PoolLocals == [i |-> 0, waited |-> 0, healthy |-> 0]
Conn(t) == pool.connections[loc[t].i]
SetConn(t, conn) == [pool EXCEPT !.connections[loc[t].i] = conn]

\* a thread calls pool.execute, pool.health_check or pool.shutdown
StartPoolCall(t, name) ==
    /\ pc[t] = "idle"
    /\ op' = [op EXCEPT ![t] = name]
    /\ loc' = [loc EXCEPT ![t] = PoolLocals]
    /\ pc' = [pc EXCEPT ![t] =
                CASE name = "execute" -> "pe_lock"
                  [] name = "health_check" -> "hc_lock"
                  [] name = "shutdown" -> "sd_lock"]
    /\ UNCHANGED <<result, pool>>
    /\ PoolFrame

\* with self.pool_lock: of execute, health_check and shutdown
AcquirePool(t) ==
    /\ pc[t] \in {"pe_lock", "hc_lock", "sd_lock"}
    /\ PoolLockFree(pool.pool_lock)
    /\ pool' = [pool EXCEPT !.pool_lock = t]
    /\ loc' = [loc EXCEPT ![t].i = 0]
    /\ pc' = [pc EXCEPT ![t] =
                CASE pc[t] = "pe_lock" -> "pe_scan"
                  [] pc[t] = "hc_lock" -> "hc_scan"
                  [] pc[t] = "sd_lock" -> "sd_scan"]
    /\ UNCHANGED <<op, result>>
    /\ PoolFrame

\* leaving the with block of a thread that holds the pool lock
ReleasePoolKept(p, t) == p
ReleasePool(p, t) == IF p.pool_lock = t THEN [p EXCEPT !.pool_lock = NoTask] ELSE p

\* the call returns r (or raises it) to its caller
PoolReturn(t, p, r) ==
    /\ pool' = ReleasePool(p, t)
    /\ result' = [result EXCEPT ![t] = r]
    /\ pc' = [pc EXCEPT ![t] = "done"]
    /\ UNCHANGED <<op, loc>>

\* ConnectionPool.execute: for conn in self.connections, under the pool lock
ExecuteScan(t) ==
    /\ pc[t] = "pe_scan"
    /\ IF loc[t].i = max_connections
       THEN \* the scan found nothing: leave the with block
            /\ pool' = ReleasePool(pool, t)
            /\ pc' = [pc EXCEPT ![t] = "pe_wait"]
            /\ UNCHANGED loc
       ELSE IF ~Conn(t).is_busy /\ is_alive(Conn(t))
       THEN \* result = conn.execute(query, timeout)
            /\ pc' = [pc EXCEPT ![t] = "ce_lock"]
            /\ UNCHANGED <<pool, loc>>
       ELSE /\ loc' = [loc EXCEPT ![t].i = @ + 1]
            /\ UNCHANGED <<pool, pc>>
    /\ UNCHANGED <<op, result>>
    /\ PoolFrame

\* ConnectionPool.execute after the scan: give up after max_wait_time, or
\* time.sleep(0.1) and scan again
ExecuteWait(t) ==
    /\ pc[t] = "pe_wait"
    /\ IF loc[t].waited > max_wait_time
       THEN /\ PoolReturn(t, pool, [success |-> FALSE, error |-> "No available connections"])
       ELSE /\ loc' = [loc EXCEPT ![t].waited = @ + 1]
            /\ pc' = [pc EXCEPT ![t] = "pe_lock"]
            /\ UNCHANGED <<pool, result, op>>
    /\ PoolFrame

\* with self.lock: of Connection.execute and Connection.ping
ConnAcquire(t) ==
    /\ pc[t] \in {"ce_lock", "ping_lock"}
    /\ Conn(t).lock = NoTask
    /\ pool' = SetConn(t, [Conn(t) EXCEPT !.lock = t])
    /\ pc' = [pc EXCEPT ![t] = IF pc[t] = "ce_lock" THEN "ce_check" ELSE "ping_check"]
    /\ UNCHANGED <<op, loc, result>>
    /\ PoolFrame

\* Connection.execute: raise RuntimeError when the child is not running,
\* caught by ConnectionPool.execute, which restarts; else is_busy = True
ExecuteCheck(t) ==
    /\ pc[t] = "ce_check"
    /\ IF ~is_alive(Conn(t))
       THEN /\ pool' = SetConn(t, [Conn(t) EXCEPT !.lock = NoTask])
            /\ pc' = [pc EXCEPT ![t] = "pe_stop"]
       ELSE /\ pool' = SetConn(t, [Conn(t) EXCEPT !.is_busy = TRUE])
            /\ pc' = [pc EXCEPT ![t] = "ce_write"]
    /\ UNCHANGED <<op, loc, result>>
    /\ PoolFrame

\* what the child does with a line written to its stdin
Written(conn) ==
    IF conn.child = "idle" THEN [conn EXCEPT !.child = "working"] ELSE conn

\* Connection.execute leaves: finally is_busy = False, the lock is released,
\* and ConnectionPool.execute returns the result
ExecuteReturn(t, conn, r) ==
    PoolReturn(t, SetConn(t, [conn EXCEPT !.is_busy = FALSE, !.lock = NoTask]), r)

ConnectionError == [success |-> FALSE, error |-> "Connection error"]

\* Connection.execute: stdin.write(query), stdin.flush()
ExecuteWrite(t) ==
    /\ pc[t] = "ce_write"
    /\ IF is_alive(Conn(t))
       THEN /\ pool' = SetConn(t, Written(Conn(t)))
            /\ pc' = [pc EXCEPT ![t] = "ce_read"]
            /\ UNCHANGED <<op, loc, result>>
       ELSE \* the pipe is broken: except Exception
            ExecuteReturn(t, Conn(t), ConnectionError)
    /\ PoolFrame

\* stdout.readline() returns: a line of the child, or '' when it has exited
Readable(conn) == conn.child = "answered" \/ conn.process = "exited"

\* Connection.execute: result_line = stdout.readline(), then the response
ExecuteRead(t, response) ==
    /\ pc[t] = "ce_read"
    /\ Readable(Conn(t))
    /\ IF Conn(t).child = "answered"
       THEN ExecuteReturn(t, [Conn(t) EXCEPT !.child = "idle"], response)
       ELSE \* '' and poll() is not None: RuntimeError, except Exception
            ExecuteReturn(t, Conn(t), ConnectionError)
    /\ PoolFrame

\* the responses of the child: rows, or the database's error
Responses == {[success |-> TRUE], [success |-> FALSE, error |-> "ORA"]}

\* Connection.stop, called by the restart and by shutdown: nothing when
\* process is None; else write EXIT and wait at most two seconds
StopBegin(t) ==
    /\ pc[t] \in {"pe_stop", "sd_stop"}
    /\ IF Conn(t).process = "None"
       THEN pc' = [pc EXCEPT ![t] = IF pc[t] = "pe_stop" THEN "pe_start" ELSE "sd_next"]
       ELSE pc' = [pc EXCEPT ![t] = IF pc[t] = "pe_stop" THEN "pe_stopping"
                                    ELSE "sd_stopping"]
    /\ UNCHANGED <<op, loc, result, pool>>
    /\ PoolFrame

\* Connection.stop: the child has exited or is killed; process = None
StopEnd(t) ==
    /\ pc[t] \in {"pe_stopping", "sd_stopping"}
    /\ pool' = SetConn(t, [Conn(t) EXCEPT !.process = "None", !.child = "idle"])
    /\ pc' = [pc EXCEPT ![t] = IF pc[t] = "pe_stopping" THEN "pe_start" ELSE "sd_next"]
    /\ UNCHANGED <<op, loc, result>>
    /\ PoolFrame

\* Connection.start in the restart: the new child reports ready and the scan
\* continues with the next connection, or start stops the child and raises
RestartStart(t, ready) ==
    /\ pc[t] = "pe_start"
    /\ IF Conn(t).process # "None"
       THEN \* 'already started': return
            /\ loc' = [loc EXCEPT ![t].i = @ + 1]
            /\ pc' = [pc EXCEPT ![t] = "pe_scan"]
            /\ UNCHANGED <<pool, result, op>>
       ELSE IF ready
       THEN /\ pool' = SetConn(t, [Conn(t) EXCEPT !.process = "running",
                                                  !.child = "idle"])
            /\ loc' = [loc EXCEPT ![t].i = @ + 1]
            /\ pc' = [pc EXCEPT ![t] = "pe_scan"]
            /\ UNCHANGED <<result, op>>
       ELSE PoolReturn(t, pool, [raised |-> "Exception"])
    /\ PoolFrame

\* ConnectionPool.health_check: for conn in self.connections: conn.ping()
HealthScan(t) ==
    /\ pc[t] = "hc_scan"
    /\ IF loc[t].i = max_connections
       THEN PoolReturn(t, pool, [healthy |-> loc[t].healthy,
                                 unhealthy |-> max_connections - loc[t].healthy])
       ELSE /\ pc' = [pc EXCEPT ![t] = "ping_lock"]
            /\ UNCHANGED <<pool, loc, result, op>>
    /\ PoolFrame

\* Connection.ping leaves with alive, and health_check goes to the next
PingReturn(t, conn, alive) ==
    /\ pool' = SetConn(t, [conn EXCEPT !.lock = NoTask])
    /\ loc' = [loc EXCEPT ![t].i = @ + 1,
                          ![t].healthy = IF alive THEN @ + 1 ELSE @]
    /\ pc' = [pc EXCEPT ![t] = "hc_scan"]
    /\ UNCHANGED <<op, result>>

\* Connection.ping: False when the child is not running, else write PING
PingCheck(t) ==
    /\ pc[t] = "ping_check"
    /\ IF ~is_alive(Conn(t))
       THEN PingReturn(t, Conn(t), FALSE)
       ELSE /\ pool' = SetConn(t, Written(Conn(t)))
            /\ pc' = [pc EXCEPT ![t] = "ping_read"]
            /\ UNCHANGED <<op, loc, result>>
    /\ PoolFrame

\* Connection.ping: response_line = stdout.readline()
PingRead(t) ==
    /\ pc[t] = "ping_read"
    /\ Readable(Conn(t))
    /\ IF Conn(t).child = "answered"
       THEN PingReturn(t, [Conn(t) EXCEPT !.child = "idle"], TRUE)
       ELSE PingReturn(t, Conn(t), FALSE)
    /\ PoolFrame

\* ConnectionPool.shutdown: for conn in self.connections: conn.stop()
ShutdownScan(t) ==
    /\ pc[t] \in {"sd_scan", "sd_next"}
    /\ IF pc[t] = "sd_next"
       THEN /\ loc' = [loc EXCEPT ![t].i = @ + 1]
            /\ pc' = [pc EXCEPT ![t] = "sd_scan"]
            /\ UNCHANGED <<pool, result, op>>
       ELSE IF loc[t].i = max_connections
       THEN PoolReturn(t, pool, [shutdown |-> TRUE])
       ELSE /\ pc' = [pc EXCEPT ![t] = "sd_stop"]
            /\ UNCHANGED <<pool, loc, result, op>>
    /\ PoolFrame

\* the child process of connection c: it answers the line it was sent,
\* stops answering, or exits
ChildStep(c, child) ==
    /\ is_alive(pool.connections[c])
    /\ pool.connections[c].child = "working"
    /\ pool' = [pool EXCEPT !.connections[c].child = child]
    /\ UNCHANGED <<pc, op, loc, result>>
    /\ PoolFrame
ChildAnswers(c) == ChildStep(c, "answered")
ChildHangs(c) == ChildStep(c, "hung")
ChildDies(c) ==
    /\ is_alive(pool.connections[c])
    /\ pool' = [pool EXCEPT !.connections[c].process = "exited"]
    /\ UNCHANGED <<pc, op, loc, result>>
    /\ PoolFrame

PoolCalls == {"execute", "health_check", "shutdown"}

PoolStep(t) ==
    \/ AcquirePool(t)
    \/ ExecuteScan(t)
    \/ ExecuteWait(t)
    \/ ConnAcquire(t)
    \/ ExecuteCheck(t)
    \/ ExecuteWrite(t)
    \/ \E response \in Responses : ExecuteRead(t, response)
    \/ StopBegin(t)
    \/ StopEnd(t)
    \/ \E ready \in BOOLEAN : RestartStart(t, ready)
    \/ HealthScan(t)
    \/ PingCheck(t)
    \/ PingRead(t)
    \/ ShutdownScan(t)

PoolNext ==
    \/ \E t \in Tasks, name \in PoolCalls : StartPoolCall(t, name)
    \/ \E t \in Tasks : PoolStep(t)
    \/ \E t \in Tasks : Finish(t)
    \/ \E c \in ConnIds : ChildAnswers(c)
    \/ \E c \in ConnIds : ChildHangs(c)
    \/ \E c \in ConnIds : ChildDies(c)

SpecPool == Init /\ [][PoolNext]_vars

\* thread t is between its write to the stdin of connection c's child and
\* the end of its read or wait
InExchange(t, c) ==
    /\ pc[t] \in {"ce_read", "ping_read", "pe_stopping", "sd_stopping"}
    /\ loc[t].i = c

\* C27: for each connection, under any interleaving of concurrent pool
\* execute, health_check, restart and shutdown, at most one operation at a
\* time writes to the child's stdin or reads its stdout: the requests on one
\* connection are strictly serialized.
C27_OneExchangePerConnection ==
    \A c \in ConnIds : \A t1, t2 \in Tasks :
       InExchange(t1, c) /\ InExchange(t2, c) => t1 = t2

\* an execute waits for the child's answer while a shutdown and, in the
\* other witness, a health check of the other thread wait for the pool lock
C27_Witness ==
    /\ op[1] = "execute" /\ InExchange(1, 0)
    /\ op[2] = "shutdown" /\ pc[2] = "sd_lock"
    /\ pool.connections[0].child = "working"
C27_WitnessPing ==
    /\ op[2] = "health_check" /\ InExchange(2, 1)
    /\ op[1] = "execute" /\ pc[1] = "pe_lock" /\ loc[1].waited = 1

\* thread t is inside the call of its connection: Connection.execute
InConnectionCall(t) == pc[t] \in {"ce_lock", "ce_check", "ce_write", "ce_read"}

\* C28 as stated: ConnectionPool.execute holds the pool lock only for the
\* selection scan and releases it before invoking the selected connection's
\* call, so two executes can be in flight at the same time on the two
\* connections and no caller waits for the pool lock for the duration of
\* another caller's query.
C28_LockOnlyForScan ==
    \A t \in Tasks : InConnectionCall(t) => pool.pool_lock # t

\* an execute waits for its child's answer with the pool lock held, and the
\* other thread's execute waits for the pool lock while connection 1 is idle
C28_Diverges ==
    /\ op[1] = "execute" /\ pc[1] = "ce_read" /\ loc[1].i = 0
    /\ pool.pool_lock = 1
    /\ op[2] = "execute" /\ pc[2] = "pe_lock"
    /\ is_alive(pool.connections[1]) /\ ~pool.connections[1].is_busy

\* what holds instead: two executes are never in flight at the same time
C28_NeverTwoInFlight ==
    \A t1, t2 \in Tasks : InConnectionCall(t1) /\ InConnectionCall(t2) => t1 = t2

-----------------------------------------------------------------------------
(* The pool in service: threads that call execute again and again; a thread *)
(* that can take a step again and again takes it (no thread starves at a    *)
(* lock), and a child that is working on a line answers unless it stops     *)
(* answering or exits                                                       *)

ExecuteStep(t) ==
    \/ AcquirePool(t)
    \/ ExecuteScan(t)
    \/ ExecuteWait(t)
    \/ ConnAcquire(t)
    \/ ExecuteCheck(t)
    \/ ExecuteWrite(t)
    \/ \E response \in Responses : ExecuteRead(t, response)
    \/ StopBegin(t)
    \/ StopEnd(t)
    \/ \E ready \in BOOLEAN : RestartStart(t, ready)

ServingNext ==
    \/ \E t \in Tasks : StartPoolCall(t, "execute")
    \/ \E t \in Tasks : ExecuteStep(t)
    \/ \E t \in Tasks : Finish(t)
    \/ \E c \in ConnIds : ChildAnswers(c)
    \/ \E c \in ConnIds : ChildHangs(c)
    \/ \E c \in ConnIds : ChildDies(c)

SpecServing ==
    /\ Init /\ [][ServingNext]_vars
    /\ \A t \in Tasks : WF_vars(StartPoolCall(t, "execute"))
    /\ \A t \in Tasks : SF_vars(ExecuteStep(t))
    /\ \A t \in Tasks : WF_vars(Finish(t))
    /\ \A c \in ConnIds : WF_vars(ChildAnswers(c))

\* C29 as stated: when a child dies, during a call or between calls, the
\* pool stops and restarts that connection, so the connection eventually is
\* alive again and a later execute can use it; a connection whose child has
\* exited does not stay dead for the rest of the pool's lifetime.
C29_DeadConnectionRestarted ==
    \A c \in ConnIds :
       [](pool.connections[c].process = "exited"
             => <>is_alive(pool.connections[c]))

\* C29 for the runs in which no child ever stops answering, so that every
\* execute returns and the pool stays in service: a connection whose child
\* has exited is eventually alive again.
NoChildHung == \A c \in ConnIds : pool.connections[c].child # "hung"
C29_RestartedWhileServing ==
    \A c \in ConnIds :
       [](pool.connections[c].process = "exited"
             => <>(is_alive(pool.connections[c]) \/ ~NoChildHung))

\* both children have exited and were left as they are: an execute has
\* waited max_wait_time and returns 'No available connections'
C29_Diverges ==
    /\ \A c \in ConnIds : pool.connections[c].process = "exited"
    /\ op[1] = "execute" /\ pc[1] = "done"
    /\ result[1] = [success |-> FALSE, error |-> "No available connections"]

\* the one restart of the code: the child exited between the scan's
\* is_alive() and the check in Connection.execute; it has been started anew
C29_RestartedInRace ==
    /\ op[1] = "execute" /\ pc[1] = "pe_scan" /\ loc[1].i = 1
    /\ is_alive(pool.connections[0])
    /\ ~is_alive(pool.connections[1])

InExecute(t) == op[t] = "execute" /\ pc[t] # "done"

\* C30 as stated: ConnectionPool.execute always terminates: when no
\* connection is both not busy and alive throughout max_wait_time it returns
\* the error result 'No available connections' instead of blocking forever,
\* and no caller is kept waiting longer than that.
C30_ExecuteTerminates ==
    \A t \in Tasks : [](InExecute(t) => <>(pc[t] = "done"))

\* what holds instead: execute returns in every run in which no child stops
\* answering
C30_TerminatesUnlessHung ==
    \A t \in Tasks : [](InExecute(t) => <>(pc[t] = "done" \/ ~NoChildHung))

\* the child of connection 0 has stopped answering: thread 1 stays in
\* readline() with the pool lock held, thread 2 stays at the pool lock
C30_Diverges ==
    /\ op[1] = "execute" /\ pc[1] = "ce_read" /\ loc[1].i = 0
    /\ pool.connections[0].child = "hung"
    /\ pool.pool_lock = 1
    /\ op[2] = "execute" /\ pc[2] = "pe_lock" /\ loc[2].waited = 0

-----------------------------------------------------------------------------
(* CircuitBreaker.call of a coroutine function (await func(...)): the call   *)
(* is suspended while its function runs, so calls overlap; each "async with *)
(* self.lock" is an acquisition, a locked section and a release             *)

MaxOverlapEvents == 5

\* what the history keeps of a call: the breaker's state when the first
\* locked section let it through, and the clock at that moment
AdmittedCall(state, t) ==
    [sweep_now |-> t, used_before |-> FALSE, verified |-> FALSE,
     admitted |-> state]

\* leaving "async with self.lock"
ReleaseNever(b) == b
Release(b) == [b EXCEPT !.lock = NoTask]

\* await breaker.call(func), func a coroutine function
StartOverlapCall(t) ==
    /\ pc[t] = "idle"
    /\ Len(hist.breaker) + Cardinality({u \in Tasks : pc[u] # "idle"})
          < MaxOverlapEvents
    /\ pc' = [pc EXCEPT ![t] = "cb_enter"]
    /\ op' = [op EXCEPT ![t] = "call"]
    /\ UNCHANGED <<pool, now, approvals, tracker_lock, issued, requests, cb, arg,
                   loc, result, hist, input, vout>>

\* CircuitBreaker.call: async with self.lock, before the call or after it
BreakerLock(t) ==
    /\ pc[t] \in {"cb_enter", "cb_update"}
    /\ LockFree(cb.lock)
    /\ cb' = [cb EXCEPT !.lock = t]
    /\ pc' = [pc EXCEPT ![t] = IF pc[t] = "cb_enter" THEN "cb_check"
                               ELSE "cb_record"]
    /\ UNCHANGED <<pool, now, approvals, tracker_lock, issued, requests, op, arg,
                   loc, result, hist, input, vout>>

\* CircuitBreaker.call, the first locked section: reject while OPEN and the
\* recovery timeout has not elapsed, go to HALF_OPEN when it has
BreakerCheck(t) ==
    /\ pc[t] = "cb_check"
    /\ IF Rejects(cb, now)
       THEN /\ Respond(t, [kind |-> "text", text |-> "Circuit breaker is OPEN",
                           retry_in |-> recovery_timeout - (now - cb.last_failure_time)])
            /\ hist' = [hist EXCEPT !.breaker = Append(@, "rejected")]
            /\ cb' = Release(cb)
       ELSE LET entered == IF cb.state = "OPEN"
                           THEN [cb EXCEPT !.state = "HALF_OPEN", !.success_count = 0]
                           ELSE cb
            IN  /\ cb' = Release(entered)
                /\ hist' = [hist EXCEPT
                              !.breaker = IF cb.state = "OPEN"
                                          THEN Append(@, "half-open") ELSE @,
                              !.call[t] = AdmittedCall(entered.state, now)]
                /\ pc' = [pc EXCEPT ![t] = "cb_call"]
                /\ UNCHANGED result
    /\ UNCHANGED <<pool, now, approvals, tracker_lock, issued, requests, op, arg,
                   loc, input, vout>>

\* CircuitBreaker.call, the locked section after func: the success section
\* after a return, the failure section (and raise) after an exception
BreakerRecord(t) ==
    /\ pc[t] = "cb_record"
    /\ cb' = Release(IF Raises(loc[t].outcome) THEN OnFailure(cb, now)
                     ELSE OnSuccess(cb))
    /\ Respond(t, [kind |-> IF Raises(loc[t].outcome) THEN "raised" ELSE "returned",
                   outcome |-> loc[t].outcome])
    /\ hist' = [hist EXCEPT !.breaker =
                  Append(@, IF Raises(loc[t].outcome) THEN "failure" ELSE "success")]
    /\ UNCHANGED <<pool, now, approvals, tracker_lock, issued, requests, op, arg,
                   loc, input, vout>>

OverlapNext ==
    \/ Tick
    \/ \E t \in Tasks : StartOverlapCall(t)
    \/ \E t \in Tasks : BreakerLock(t)
    \/ \E t \in Tasks : BreakerCheck(t)
    \/ \E t \in Tasks, outcome \in {"rows", "Exception"} : PoolExecute(t, outcome)
    \/ \E t \in Tasks : BreakerRecord(t)
    \/ \E t \in Tasks : Finish(t)

SpecOverlap == Init /\ [][OverlapNext]_vars

\* the function of call t is running: the call has left the first locked
\* section and its function has not returned or raised yet
InFlight(t) == pc[t] = "cb_call"
\* call t is inside one of the two locked sections
InLockedSection(t) == pc[t] \in {"cb_check", "cb_record"}

\* the breaker's state and counters, without its lock
StateOf(b) == <<b.state, b.failure_count, b.success_count, b.last_failure_time>>

\* C31: the breaker's lock is held exactly by a call inside its state check
\* or its post-call update, never by a call whose guarded function is
\* running; the breaker's state and counters change only in a step of the
\* call that holds the lock, and every post-call update starts with a new
\* acquisition of the lock, which it releases at its end.
C31_LockOnlyAroundStateSections ==
    /\ [](\A t \in Tasks : (cb.lock = t <=> InLockedSection(t))
                           /\ (InFlight(t) => cb.lock # t))
    /\ [][\A t \in Tasks :
            pc[t] = "cb_update" /\ pc'[t] # "cb_update" =>
               cb.lock = NoTask /\ cb'.lock = t /\ pc'[t] = "cb_record"]_vars
    /\ [][StateOf(cb') # StateOf(cb) =>
            cb.lock \in Tasks /\ InLockedSection(cb.lock) /\ cb'.lock = NoTask]_vars

\* a second call has passed the state check while the first call's function
\* is still running
C31_Witness ==
    /\ InFlight(1) /\ InFlight(2)
    /\ cb.lock = NoTask
    /\ hist.call[1].admitted = "CLOSED" /\ hist.call[2].admitted = "CLOSED"

\* a post-call update waits for the lock that another call's state check holds
C31_WitnessRelock ==
    /\ pc[1] = "cb_update" /\ pc[2] = "cb_check" /\ cb.lock = 2

-----------------------------------------------------------------------------
(* The breaker's counters and recovery decisions under overlapping calls     *)

\* C36: in every reachable state of the breaker, whatever the interleaving
\* of the calls, state is CLOSED, OPEN or HALF_OPEN; CLOSED implies
\* failure_count < failure_threshold; success_count is positive only in
\* HALF_OPEN and always below success_threshold; and OPEN implies that
\* last_failure_time has been set (to a time that is not in the future).
C36_BreakerInvariants ==
    /\ cb.state \in {"CLOSED", "OPEN", "HALF_OPEN"}
    /\ cb.state = "CLOSED" => cb.failure_count < failure_threshold
    /\ cb.failure_count >= 0
    /\ cb.success_count > 0 => cb.state = "HALF_OPEN"
    /\ cb.success_count \in 0..(success_threshold - 1)
    /\ cb.state = "OPEN" => cb.last_failure_time \in 0..now

\* HALF_OPEN with one success counted while the other call, admitted when
\* the breaker was CLOSED, has its function still running
C36_Witness ==
    /\ cb.state = "HALF_OPEN" /\ cb.success_count = 1
    /\ \E t \in Tasks : InFlight(t) /\ hist.call[t].admitted = "CLOSED"

\* OPEN with more failures counted than the threshold: the failure of a call
\* that overlapped the ones that opened the breaker
C36_WitnessOpen ==
    /\ cb.state = "OPEN" /\ cb.failure_count > failure_threshold

\* call t leaves its post-call section: its outcome is recorded
Records(t) == pc[t] = "cb_record" /\ pc'[t] = "done"
\* call t was let through in a CLOSED period that has ended since
LateFromClosed(t) ==
    hist.call[t].admitted = "CLOSED" /\ cb.state \in {"OPEN", "HALF_OPEN"}

\* C40: when calls overlap, recovery is decided by trial calls only: the
\* breaker goes from HALF_OPEN to CLOSED only in the recording of a success
\* of a call admitted in HALF_OPEN, and the late outcome of a call admitted
\* in an earlier CLOSED period changes neither success_count nor the state
\* of a HALF_OPEN breaker nor last_failure_time of an OPEN breaker.
C40_RecoveryFromTrialCallsOnly ==
    /\ [][\A t \in Tasks :
            Records(t) /\ cb.state = "HALF_OPEN" /\ cb'.state = "CLOSED" =>
               hist.call[t].admitted = "HALF_OPEN"]_vars
    /\ [][\A t \in Tasks :
            Records(t) /\ LateFromClosed(t) /\ cb.state = "HALF_OPEN" =>
               /\ cb'.state = "HALF_OPEN"
               /\ cb'.success_count = cb.success_count]_vars
    /\ [][\A t \in Tasks :
            Records(t) /\ LateFromClosed(t) /\ cb.state = "OPEN" =>
               cb'.last_failure_time = cb.last_failure_time]_vars

\* the breaker has closed after one trial success: the other success counted
\* in HALF_OPEN was the late return of a call admitted while CLOSED
C40_Diverges ==
    /\ hist.breaker = <<"failure", "failure", "half-open", "success", "success">>
    /\ cb.state = "CLOSED"
    /\ \E t \in Tasks : pc[t] = "done" /\ hist.call[t].admitted = "CLOSED"
                        /\ hist.call[t].sweep_now = 0

\* the late failure of a call admitted while CLOSED has moved
\* last_failure_time of the OPEN breaker, whose rejections last longer
C40_DivergesRefresh ==
    /\ hist.breaker = <<"failure", "failure", "failure">>
    /\ cb.state = "OPEN" /\ cb.last_failure_time = 1 /\ now = 1
    /\ \E t \in Tasks : pc[t] = "done" /\ hist.call[t].admitted = "CLOSED"
                        /\ hist.call[t].sweep_now = 0

\* the late failure of a call admitted while CLOSED has ended a trial period
C40_DivergesTrialFailed ==
    /\ hist.breaker = <<"failure", "failure", "half-open", "failure">>
    /\ cb.state = "OPEN"
    /\ \E t \in Tasks : InFlight(t) /\ hist.call[t].admitted = "HALF_OPEN"

-----------------------------------------------------------------------------
(* What verify_approval does to the approval table                          *)

\* the records of appr that are not expired at time t, stated on the age
Unexpired(appr, t) == {k \in DOMAIN appr : t - appr[k].timestamp <= token_expiry}
\* table b holds exactly the records of table a whose tokens are in keep
SameRecords(a, b, keep) == DOMAIN b = keep /\ \A k \in keep : b[k] = a[k]

\* C34: a verify_approval call changes the approval table only by removing,
\* at its start, the records that are expired and, when it succeeds, exactly
\* the record of the verified token: every other pending record is kept
\* unchanged. A refused verification removes no unexpired record, so after a
\* query mismatch the token's record is still in the table as issued.
C34_VerifyRemovesOnlyExpiredAndConsumed ==
    /\ [][\A t \in Tasks :
            pc[t] = "v_acquire" /\ pc'[t] # "v_acquire" =>
               SameRecords(approvals, approvals', Unexpired(approvals, now))]_vars
    /\ [][\A t \in Tasks :
            pc[t] = "v_check" /\ pc'[t] # "v_check" =>
               /\ approvals' = approvals
               /\ pc'[t] = "v_return" => ~loc'[t].ret[1]]_vars
    /\ [][\A t \in Tasks :
            pc[t] = "v_consume" /\ pc'[t] # "v_consume" =>
               /\ arg[t].token \in DOMAIN approvals
               /\ SameRecords(approvals, approvals', DOMAIN approvals \ {arg[t].token})
               /\ loc'[t].ret = <<TRUE, MsgNone>>]_vars
    /\ [](\A t \in Tasks :
            pc[t] = "v_return" /\ op[t] = "verify" /\ loc[t].ret = <<FALSE, MsgMismatch>> =>
               /\ arg[t].token \in DOMAIN approvals
               /\ approvals[arg[t].token].timestamp = hist.issuedAt[arg[t].token]
               /\ hist.accepts[arg[t].token] = 0)

\* token 1 has been consumed while token 2, issued at the same time, is
\* still pending with its record
C34_Witness ==
    /\ issued = 2
    /\ pc[TrackerCaller] = "v_return" /\ loc[TrackerCaller].ret = <<TRUE, MsgNone>>
    /\ arg[TrackerCaller].token = 1
    /\ DOMAIN approvals = {2}
    /\ approvals[2].timestamp = hist.issuedAt[2]
    /\ hist.issuedAt[1] = hist.issuedAt[2]

\* token 1 was refused for another query and is still pending
C34_WitnessMismatch ==
    /\ pc[TrackerCaller] = "v_return"
    /\ loc[TrackerCaller].ret = <<FALSE, MsgMismatch>>
    /\ arg[TrackerCaller].token = 1
    /\ 1 \in DOMAIN approvals

\* a refused verification (unknown token) whose sweep removed the expired
\* token 1 and kept token 2, which is exactly token_expiry old
C34_WitnessSweep ==
    /\ issued = 2
    /\ pc[TrackerCaller] = "v_return"
    /\ loc[TrackerCaller].ret = <<FALSE, MsgInvalid>>
    /\ arg[TrackerCaller].token = 1
    /\ hist.accepts[1] = 0
    /\ DOMAIN approvals = {2}
    /\ hist.call[TrackerCaller].sweep_now - hist.issuedAt[2] = token_expiry

-----------------------------------------------------------------------------
(* query_oracle after verify_approval has consumed the token                *)

\* the server when the pipeline is first used, or after failure_threshold
\* list_tables calls whose db.query raised have opened the breaker at time 0
InitRetry ==
    \E opened \in BOOLEAN :
       /\ input = <<>> /\ vout = [stage |-> "off"]
       /\ now = 0 /\ approvals = <<>> /\ tracker_lock = NoTask /\ issued = 0
       /\ requests = <<>>
       /\ cb = IF opened
               THEN [state |-> "OPEN", failure_count |-> failure_threshold,
                     success_count |-> 0, last_failure_time |-> 0, lock |-> NoTask]
               ELSE [state |-> "CLOSED", failure_count |-> 0, success_count |-> 0,
                     last_failure_time |-> -1, lock |-> NoTask]
       /\ pc = [t \in Tasks |-> "idle"]
       /\ op = [t \in Tasks |-> "none"]
       /\ arg = [t \in Tasks |-> IdleArg]
       /\ loc = [t \in Tasks |-> IdleLoc]
       /\ result = [t \in Tasks |-> NoResult]
       /\ hist = [issuedQ |-> <<>>, issuedAt |-> <<>>, accepts |-> <<>>,
                  call |-> [t \in Tasks |-> IdleCall], poolCalls |-> 0,
                  breaker |-> IF opened THEN <<"failure", "failure">> ELSE <<>>]
       /\ pool = NewPool

SpecRetry == InitRetry /\ [][Next]_vars

\* call t is a query_oracle call past its verify_approval
AfterVerify(t) ==
    op[t] = "query_oracle" /\ pc[t] \in {"v_return", "cb_enter", "cb_call", "cb_update"}
\* the text of a finished call's response
Answered(t, text) ==
    pc[t] = "done" /\ result[t].kind = "text" /\ result[t].text = text

\* C38: a token that verify_approval has accepted stays out of the approval
\* table: no later step of that query_oracle call (rate limit, validation,
\* breaker, pool) touches the table, whatever the call's outcome, and a
\* query_oracle call that presents an already accepted token is refused as
\* invalid or expired.
C38_ConsumedTokenStaysConsumed ==
    /\ [](\A k \in Consumed : k \notin DOMAIN approvals)
    /\ [][\A t \in Tasks :
            AfterVerify(t) /\ pc'[t] # pc[t] => approvals' = approvals]_vars
    /\ [](\A t \in Tasks :
            (AfterVerify(t) \/ pc[t] = "done") /\ op[t] = "query_oracle"
            /\ hist.call[t].used_before =>
               /\ loc[t].ret = <<FALSE, MsgInvalid>>
               /\ pc[t] # "v_return" => Answered(t, MsgInvalid))

\* the client's call consumed token 1 and was blocked by validation; the
\* retry with token 1 is refused as invalid or expired
C38_Witness ==
    /\ pc[Client] = "done" /\ op[Client] = "query_oracle"
    /\ result[Client].kind = "blocked" /\ arg[Client].token = 1
    /\ hist.call[Client].verified
    /\ Answered(Rival, MsgInvalid) /\ arg[Rival].token = 1
    /\ hist.call[Rival].used_before
    /\ 1 \notin DOMAIN approvals

\* the same after a rejection by the OPEN breaker
C38_WitnessBreakerOpen ==
    /\ Answered(Client, "Circuit breaker is OPEN") /\ arg[Client].token = 1
    /\ hist.call[Client].verified
    /\ Answered(Rival, MsgInvalid) /\ arg[Rival].token = 1
    /\ hist.call[Rival].used_before

\* the same after a refusal by the rate limiter
C38_WitnessRateLimited ==
    /\ RateLimited(Client) /\ hist.call[Client].verified
    /\ Answered(Rival, MsgInvalid) /\ arg[Rival].token = arg[Client].token
    /\ hist.call[Rival].used_before

\* the same after a failure in the pool
C38_WitnessPoolFailed ==
    /\ Answered(Client, "Error executing query") /\ hist.call[Client].verified
    /\ Answered(Rival, MsgInvalid) /\ arg[Rival].token = arg[Client].token
    /\ hist.call[Rival].used_before

-----------------------------------------------------------------------------
(* The binding of a token to its query: one token is issued for input.q1    *)
(* and presented with input.q2                                               *)

\* a query, the same with other case and whitespace, the same with the
\* string literal in another case; a query with a line comment, and the same
\* with the comment ended by a line break before its last word
BindingQueries ==
    {<<"SELECT", " ", "t", " ", "WHERE", " ", "x", "=", "'", "A", "'">>,
     <<"select", "\n", "T", " ", " ", "where", " ", "X", "=", "'", "A", "'">>,
     <<"SELECT", " ", "t", " ", "WHERE", " ", "x", "=", "'", "a", "'">>,
     <<"SELECT", " ", "t", " ", "-", "-", " ", "delete", " ", "u">>,
     <<"SELECT", " ", "t", " ", "-", "-", "\n", "delete", " ", "u">>}

InitBinding ==
    /\ ServerInit
    /\ input \in [q1 : BindingQueries, q2 : BindingQueries]
    /\ vout = [stage |-> "fingerprint"]

SpecBinding == InitBinding /\ [][FingerprintNext]_vars

\* the positions of the quote characters of s, in order
QuoteAt(s) == {i \in 1..Len(s) : s[i] = "'"}
\* the text of the string literals of s: what stands between the quotes
\* number 2k-1 and 2k
StringLiterals(s) ==
    LET q == QuoteAt(s)
        before(i) == Cardinality({j \in q : j < i})
    IN  SelectSeq([i \in 1..Len(s) |-> IF before(i) % 2 = 1 /\ i \notin q
                                       THEN <<s[i]>> ELSE <<>>],
                  LAMBDA x : x # <<>>)

\* C35: a token issued for q1 is accepted for q2 only if q2 is q1 up to the
\* amount of whitespace and the case of the text outside string literals and
\* comments: when the string literals of q2 differ from those of q1 (Oracle
\* would execute another statement) or the validator reports on q2 otherwise
\* than on q1, verify_approval(q2, token) is refused.
C35_SemanticEditRefused ==
    \A t \in Tasks :
       Returned(t) /\ loc[t].ret[1] =>
          /\ StringLiterals(arg[t].query) = StringLiterals(hist.issuedQ[arg[t].token])
          /\ validate(arg[t].query) = validate(hist.issuedQ[arg[t].token])

\* accepted for the query with the literal 'a' on a token issued for the
\* query with the literal 'A'
C35_Diverges ==
    /\ Returned(TrackerCaller) /\ loc[TrackerCaller].ret = <<TRUE, MsgNone>>
    /\ StringLiterals(hist.issuedQ[1]) = <<<<"A">>>>
    /\ StringLiterals(arg[TrackerCaller].query) = <<<<"a">>>>

\* accepted for a query that the validator blocks on a token issued for a
\* query that the validator reports safe
C35_DivergesReport ==
    /\ Returned(TrackerCaller) /\ loc[TrackerCaller].ret = <<TRUE, MsgNone>>
    /\ validate(hist.issuedQ[1]).is_safe
    /\ ~validate(arg[TrackerCaller].query).is_safe

\* accepted for the same query in another case and with other whitespace
C35_Cosmetic ==
    /\ Returned(TrackerCaller) /\ loc[TrackerCaller].ret = <<TRUE, MsgNone>>
    /\ arg[TrackerCaller].query # hist.issuedQ[1]
    /\ StringLiterals(arg[TrackerCaller].query) = StringLiterals(hist.issuedQ[1])
    /\ validate(arg[TrackerCaller].query) = validate(hist.issuedQ[1])

-----------------------------------------------------------------------------
(* Connection.execute on a child that is alive and silent                   *)

\* thread t is in Connection.execute's read on connection c, whose child is
\* alive and has stopped answering
ReadingHung(t, c) ==
    /\ op[t] = "execute" /\ pc[t] = "ce_read" /\ loc[t].i = c
    /\ pool.connections[c].child = "hung"
    /\ is_alive(pool.connections[c])

\* C32 as stated: a query call on a connection whose child is alive but
\* writes no response line eventually returns (a timeout error) to its
\* caller, with the connection's lock released and its busy flag cleared: a
\* silent child blocks neither the caller nor the callers behind it forever.
C32_SilentChildTimesOut ==
    \A t \in Tasks, c \in ConnIds :
       [](ReadingHung(t, c) =>
            <>(/\ pc[t] = "done"
               /\ pool.connections[c].lock # t
               /\ ~pool.connections[c].is_busy))

\* the call on the silent child of connection 0 holds the connection's lock
\* and the pool lock with is_busy set; only the child's exit can end it
C32_Diverges ==
    /\ ReadingHung(1, 0)
    /\ pool.connections[0].lock = 1 /\ pool.connections[0].is_busy
    /\ pool.pool_lock = 1
    /\ pc[2] = "pe_lock"
    /\ ~ENABLED (\E response \in Responses : ExecuteRead(1, response))

-----------------------------------------------------------------------------
(* The pool from its construction on: init_db() constructs OracleJDBC and   *)
(* its ConnectionPool at the head of every call_tool while db is None; an   *)
(* exception of the construction leaves db None, and the next call_tool     *)
(* constructs again.  vout keeps what the interpreter does not: whether db  *)
(* is set, and the executor processes that no connection of self.pool owns  *)

MaxConstructions == 3

\* ConnectionPool.__init__ before _initialize_pool: self.connections = []
NoPool == [pool_lock |-> NoTask, connections |-> <<>>]

InitLifecycle ==
    /\ now = 0 /\ approvals = <<>> /\ tracker_lock = NoTask /\ issued = 0
    /\ requests = <<>>
    /\ cb = [state |-> "CLOSED", failure_count |-> 0, success_count |-> 0,
             last_failure_time |-> -1, lock |-> NoTask]
    /\ pc = [t \in Tasks |-> "idle"]
    /\ op = [t \in Tasks |-> "none"]
    /\ arg = [t \in Tasks |-> IdleArg]
    /\ loc = [t \in Tasks |-> IdleLoc]
    /\ result = [t \in Tasks |-> NoResult]
    /\ hist = [issuedQ |-> <<>>, issuedAt |-> <<>>, accepts |-> <<>>,
               call |-> [t \in Tasks |-> IdleCall], poolCalls |-> 0,
               breaker |-> <<>>]
    /\ pool = NoPool
    /\ input = <<>>
    /\ vout = [stage |-> "lifecycle", db |-> "None", orphans |-> 0,
               constructions |-> 0]

LifecycleFrame ==
    UNCHANGED <<now, approvals, tracker_lock, issued, requests, cb, arg, hist,
                input>>

\* the children of the connections in p.connections that are running
Running(p) == {c \in DOMAIN p.connections : is_alive(p.connections[c])}

\* init_db: db is None, so OracleJDBC(...) and ConnectionPool(...) are
\* constructed; call_tool has no await before it, so no other call is under way
InitDbBegin(t) ==
    /\ vout.db = "None"
    /\ \A u \in Tasks : pc[u] = "idle"
    /\ vout.constructions < MaxConstructions
    /\ pool' = NoPool
    /\ vout' = [vout EXCEPT !.constructions = @ + 1]
    /\ pc' = [pc EXCEPT ![t] = "ip_spawn"]
    /\ op' = [op EXCEPT ![t] = "init_db"]
    /\ UNCHANGED <<loc, result>>
    /\ LifecycleFrame

\* _initialize_pool: conn = Connection(i); conn.start(): subprocess.Popen
StartSpawn(t) ==
    /\ pc[t] = "ip_spawn"
    /\ pc' = [pc EXCEPT ![t] = "ip_ready"]
    /\ UNCHANGED <<op, loc, result, pool, vout>>
    /\ LifecycleFrame

\* _initialize_pool's except: log and raise; the connections appended so far
\* are not stopped, and their children run on with no reference left
Abandon(p) == Cardinality(Running(p))

\* Connection.start after Popen: the ready line arrives and the connection is
\* appended, or the handshake fails: self.stop() and raise, which
\* _initialize_pool, ConnectionPool.__init__, OracleJDBC.__init__ and init_db
\* pass on, so db stays None
StartReady(t, ready) ==
    /\ pc[t] = "ip_ready"
    /\ IF ready
       THEN LET n == Cardinality(DOMAIN pool.connections)
                grown == [c \in 0..n |-> IF c < n THEN pool.connections[c]
                                         ELSE NewConnection]
            IN  /\ pool' = [pool EXCEPT !.connections = grown]
                /\ IF n + 1 = max_connections
                   THEN /\ vout' = [vout EXCEPT !.db = "ready"]
                        /\ pc' = [pc EXCEPT ![t] = "done"]
                        /\ result' = [result EXCEPT ![t] = [db |-> "ready"]]
                   ELSE /\ pc' = [pc EXCEPT ![t] = "ip_spawn"]
                        /\ UNCHANGED <<vout, result>>
       ELSE /\ vout' = [vout EXCEPT !.orphans = @ + Abandon(pool)]
            /\ pool' = NoPool
            /\ pc' = [pc EXCEPT ![t] = "done"]
            /\ result' = [result EXCEPT ![t] = [raised |-> "RuntimeError"]]
    /\ UNCHANGED <<op, loc>>
    /\ LifecycleFrame

\* an executor process that no connection owns exits on its own
OrphanExits ==
    /\ vout.orphans > 0
    /\ vout' = [vout EXCEPT !.orphans = @ - 1]
    /\ UNCHANGED <<pc, op, loc, result, pool>>
    /\ LifecycleFrame

Constructed == vout.db = "ready"

LifecycleNext ==
    \/ \E t \in Tasks : InitDbBegin(t)
    \/ \E t \in Tasks : StartSpawn(t)
    \/ \E t \in Tasks, ready \in BOOLEAN : StartReady(t, ready)
    \/ OrphanExits
    \/ \E t \in Tasks : Constructed /\ StartPoolCall(t, "execute")
    \/ \E t \in Tasks : ExecuteStep(t)
    \/ \E t \in Tasks : Finish(t)
    \/ \E c \in ConnIds : Constructed /\ ChildAnswers(c)
    \/ \E c \in ConnIds : Constructed /\ ChildDies(c)

SpecLifecycle == InitLifecycle /\ [][LifecycleNext]_vars

\* the executor child processes that are running: those of the pool's
\* connections, the one a start() has spawned and not yet appended or
\* stopped, and those left behind by failed constructions
Children ==
    Cardinality(Running(pool))
    + Cardinality({t \in Tasks : pc[t] = "ip_ready"})
    + vout.orphans

\* C33 as stated: once the pool is constructed it owns exactly
\* max_connections Connection objects, and at no moment are more than
\* max_connections executor child processes running, also during a restart
\* and when a construction fails part-way.
C33_AtMostTwoChildren ==
    /\ Constructed => DOMAIN pool.connections = ConnIds
    /\ Children <= max_connections

\* the pool is constructed with its two children, and the first child of an
\* earlier, failed construction is still running
C33_Diverges ==
    /\ Constructed /\ vout.constructions = 2
    /\ Cardinality(Running(pool)) = max_connections
    /\ vout.orphans = 1

\* what holds: as long as no construction has left a child behind, at most
\* max_connections children run, restarts included
C33_HoldsWithoutAbandonedChildren ==
    vout.orphans = 0 /\ vout.constructions <= 1 => Children <= max_connections

\* a restart has stopped the exited child of connection 0 and started a new one
C33_Restarted ==
    /\ Constructed /\ vout.orphans = 0
    /\ \E t \in Tasks : pc[t] = "pe_scan" /\ loc[t].i = 1
    /\ Running(pool) = ConnIds

-----------------------------------------------------------------------------
(* The order in which the pool's threads take the locks                     *)

\* thread t is at 'with self.pool_lock'; at 'with self.lock' of a connection
AtPoolLock(t) == pc[t] \in {"pe_lock", "hc_lock", "sd_lock"}
AtConnLock(t) == pc[t] \in {"ce_lock", "ping_lock"}
\* thread t is inside Connection.execute or Connection.ping, lock taken
InConnLock(t) == pc[t] \in {"ce_check", "ce_write", "ce_read",
                            "ping_check", "ping_read"}

\* the thread whose lock thread t is waiting for, NoTask when t is not
\* waiting for a lock that is held
WaitsFor(t) ==
    IF AtPoolLock(t) THEN pool.pool_lock
    ELSE IF AtConnLock(t) THEN Conn(t).lock
    ELSE NoTask

\* C37: a thread takes a connection's lock only while it holds the pool
\* lock (execute, its restart, health_check), holds a connection's lock only
\* inside Connection.execute or Connection.ping, and holds no lock when it
\* asks for the pool lock; so no set of threads calling execute,
\* health_check and shutdown ever wait for each other's locks in a circle,
\* and no thread waits for a lock it holds itself.
C37_PoolLockBeforeConnectionLock ==
    /\ \A t \in Tasks :
          /\ AtConnLock(t) \/ InConnLock(t) => pool.pool_lock = t
          /\ AtPoolLock(t) =>
                /\ pool.pool_lock # t
                /\ \A c \in ConnIds : pool.connections[c].lock # t
          /\ \A c \in ConnIds :
                pool.connections[c].lock = t <=> (InConnLock(t) /\ loc[t].i = c)
    /\ \A S \in SUBSET Tasks :
          S # {} => \E t \in S : WaitsFor(t) \notin S

\* thread 1 holds the pool lock and then the lock of connection 1, inside a
\* ping; thread 2, an execute, waits for the pool lock and holds nothing
C37_Witness ==
    /\ op[1] = "health_check" /\ pc[1] = "ping_read" /\ loc[1].i = 1
    /\ pool.pool_lock = 1 /\ pool.connections[1].lock = 1
    /\ op[2] = "execute" /\ AtPoolLock(2) /\ WaitsFor(2) = 1
    /\ WaitsFor(1) = NoTask

\* a restart under the pool lock, with no connection lock held, while a
\* shutdown waits for the pool lock
C37_WitnessRestart ==
    /\ pc[1] = "pe_stopping" /\ pool.pool_lock = 1
    /\ \A c \in ConnIds : pool.connections[c].lock = NoTask
    /\ op[2] = "shutdown" /\ AtPoolLock(2)

(***************************************************************************)
(* The line protocol of one connection.  Connection.execute and            *)
(* Connection.ping write to the stdin of the executor process and read one *)
(* line of its stdout, under the connection's lock.  The executor is the   *)
(* Java program OracleQueryServer: it reads its stdin line by line and     *)
(* writes one JSON line for every line it has read.  vout keeps the two    *)
(* pipes; every line carries the number of the call that caused it         *)
(***************************************************************************)

MaxLineCalls == 3

\* the queries that reach Connection.execute: on one line; and with a line
\* break inside, as the query of describe_table and a wrapped query have
LineQueries == {<<"SELECT", " ", "1">>, <<"SELECT", "\n", "1">>}

\* the lines a line reader gets from the text s: what stands before each
\* line break
RECURSIVE LinesFrom(_, _, _)
LinesFrom(s, cur, out) ==
    IF s = <<>> THEN out
    ELSE IF Head(s) = "\n" THEN LinesFrom(Tail(s), <<>>, Append(out, cur))
    ELSE LinesFrom(Tail(s), Append(cur, Head(s)), out)
ReadLines(s) == LinesFrom(s, <<>>, <<>>)

InitLines ==
    /\ now = 0 /\ approvals = <<>> /\ tracker_lock = NoTask /\ issued = 0
    /\ requests = <<>>
    /\ cb = [state |-> "CLOSED", failure_count |-> 0, success_count |-> 0,
             last_failure_time |-> -1, lock |-> NoTask]
    /\ pc = [t \in Tasks |-> "idle"]
    /\ op = [t \in Tasks |-> "none"]
    /\ arg = [t \in Tasks |-> IdleArg]
    /\ loc = [t \in Tasks |-> IdleLoc]
    /\ result = [t \in Tasks |-> NoResult]
    /\ hist = [issuedQ |-> <<>>, issuedAt |-> <<>>, accepts |-> <<>>,
               call |-> [t \in Tasks |-> IdleCall], poolCalls |-> 0,
               breaker |-> <<>>]
    /\ pool = NoPool
    /\ input = <<>>
    /\ vout = [stage |-> "protocol", process |-> "running", lock |-> NoTask,
               stdin |-> <<>>, stdout |-> <<>>, calls |-> 0, split |-> FALSE]

LineFrame ==
    UNCHANGED <<now, approvals, tracker_lock, issued, requests, cb, hist,
                input, pool>>

\* a thread calls conn.execute(query) or conn.ping()
ConnCall(t, name, query) ==
    /\ pc[t] = "idle"
    /\ vout.calls < MaxLineCalls
    /\ vout' = [vout EXCEPT !.calls = @ + 1]
    /\ op' = [op EXCEPT ![t] = name]
    /\ arg' = [arg EXCEPT ![t] = [query |-> query, token |-> NoToken]]
    /\ loc' = [loc EXCEPT ![t] = [call |-> vout.calls + 1]]
    /\ pc' = [pc EXCEPT ![t] = "cl_lock"]
    /\ UNCHANGED result
    /\ LineFrame

\* with self.lock: of Connection.execute and Connection.ping
ConnLock(t) ==
    /\ pc[t] = "cl_lock"
    /\ vout.lock = NoTask
    /\ vout' = [vout EXCEPT !.lock = t]
    /\ pc' = [pc EXCEPT ![t] = "cl_send"]
    /\ UNCHANGED <<op, arg, loc, result>>
    /\ LineFrame

\* the call leaves the with block and returns value; answered is the call
\* whose request the line it has read replies to, 0 when it has read none
ConnReturn(t, pipes, answered, value) ==
    /\ vout' = [pipes EXCEPT !.lock = NoTask]
    /\ result' = [result EXCEPT ![t] =
                    [kind |-> "line", call |-> loc[t].call,
                     answered |-> answered, value |-> value]]
    /\ pc' = [pc EXCEPT ![t] = "done"]
    /\ UNCHANGED <<op, arg, loc>>

\* what the call writes to stdin: query + "\n", or "PING\n"
Request(t) ==
    IF op[t] = "ping" THEN <<"PING", "\n">> ELSE arg[t].query \o <<"\n">>

\* the lines of text on the pipe, each with the call that wrote it
Tagged(text, call) ==
    [i \in 1..Len(ReadLines(text)) |-> [call |-> call, text |-> ReadLines(text)[i]]]

\* the process is not running: execute raises RuntimeError and ping returns
\* False; else stdin.write(...) and stdin.flush()
ConnSend(t) ==
    /\ pc[t] = "cl_send"
    /\ IF vout.process # "running"
       THEN ConnReturn(t, vout, 0,
                       IF op[t] = "ping" THEN "False" ELSE "RuntimeError")
       ELSE /\ vout' = [vout EXCEPT
                          !.stdin = @ \o Tagged(Request(t), loc[t].call),
                          !.split = @ \/ Len(ReadLines(Request(t))) > 1]
            /\ pc' = [pc EXCEPT ![t] = "cl_read"]
            /\ UNCHANGED <<op, arg, loc, result>>
    /\ LineFrame

\* the executor reads one line of its stdin and writes one line: the reply
\* to PING, or the response to what it takes for a statement
ChildReplies ==
    /\ vout.stage = "protocol"
    /\ vout.process = "running"
    /\ vout.stdin # <<>>
    /\ vout' = [vout EXCEPT
                  !.stdin = Tail(@),
                  !.stdout = Append(@,
                      [call |-> Head(vout.stdin).call,
                       status |-> IF Head(vout.stdin).text = <<"PING">>
                                  THEN "alive" ELSE "response"])]
    /\ UNCHANGED <<pc, op, arg, loc, result>>
    /\ LineFrame

\* the executor exits; what it has written stays in the pipe
ChildExits ==
    /\ vout.stage = "protocol"
    /\ vout.process = "running"
    /\ vout' = [vout EXCEPT !.process = "exited"]
    /\ UNCHANGED <<pc, op, arg, loc, result>>
    /\ LineFrame

\* stdout.readline() returns the first line of the pipe: execute returns it
\* parsed, ping returns whether its status is 'alive'; or it returns '' when
\* the process has exited: execute returns a connection error, ping False
ConnRead(t) ==
    /\ pc[t] = "cl_read"
    /\ IF vout.stdout # <<>>
       THEN ConnReturn(t, [vout EXCEPT !.stdout = Tail(@)],
                       Head(vout.stdout).call,
                       IF op[t] = "ping"
                       THEN IF Head(vout.stdout).status = "alive"
                            THEN "True" ELSE "False"
                       ELSE Head(vout.stdout).status)
       ELSE /\ vout.process = "exited"
            /\ ConnReturn(t, vout, 0,
                          IF op[t] = "ping" THEN "False" ELSE "Connection error")
    /\ LineFrame

LinesNext ==
    \/ \E t \in Tasks, query \in LineQueries : ConnCall(t, "execute", query)
    \/ \E t \in Tasks : ConnCall(t, "ping", <<>>)
    \/ \E t \in Tasks : ConnLock(t)
    \/ \E t \in Tasks : ConnSend(t)
    \/ \E t \in Tasks : ConnRead(t)
    \/ \E t \in Tasks : Finish(t)
    \/ ChildReplies
    \/ ChildExits

SpecLines == InitLines /\ [][LinesNext]_vars

\* the call of t has returned after reading a line of the executor
ReturnedLine(t) ==
    pc[t] = "done" /\ result[t].kind = "line" /\ result[t].answered # 0

\* C39: the line a call returns is the executor's reply to the request of
\* that call, and when no call is inside a running connection, no request
\* is unanswered and no reply is unread: nothing is left for a later call.
C39_ReplyMatchesOwnRequest ==
    /\ \A t \in Tasks :
          ReturnedLine(t) => result[t].answered = result[t].call
    /\ vout.lock = NoTask /\ vout.process = "running" =>
          vout.stdin = <<>> /\ vout.stdout = <<>>

\* an execute has returned the reply to the request of an earlier call
C39_Diverges ==
    \E t \in Tasks :
        /\ ReturnedLine(t) /\ op[t] = "execute"
        /\ result[t].answered < result[t].call
        /\ arg[t].query = <<"SELECT", " ", "1">>

\* a ping of a running executor has read the response to a statement of an
\* earlier call, and reports the connection as not alive
C39_DivergesPing ==
    \E t \in Tasks :
        /\ ReturnedLine(t) /\ op[t] = "ping"
        /\ result[t].answered < result[t].call
        /\ result[t].value = "False"
        /\ vout.process = "running"

\* an execute has returned the reply to a PING as the result of its query
C39_DivergesAfterPing ==
    \E t \in Tasks :
        /\ ReturnedLine(t) /\ op[t] = "execute"
        /\ result[t].value = "alive"

\* as long as every request written was one line, the claim holds: also
\* after a call that ended in an error and after a ping
C39_HoldsForOneLineRequests ==
    ~vout.split => C39_ReplyMatchesOwnRequest

\* a ping, and an execute after it, have read their own replies
C39_OneLineWitness ==
    /\ ~vout.split /\ vout.calls = 2
    /\ ReturnedLine(1) /\ op[1] = "ping" /\ result[1].value = "True"
    /\ ReturnedLine(2) /\ op[2] = "execute" /\ result[2].value = "response"
    /\ result[1].call = 1 /\ result[2].call = 2

=============================================================================
